---- MODULE Spec2Model ----
(***************************************************************************)
(* A model of SEAL-C (hackerfactor/SEAL-C): the field store, the b= byte   *)
(* range evaluator and digest, the record builder and parser, the output   *)
(* writer, the verifier loop and the batch driver.                         *)
(*                                                                         *)
(* Bytes are one-character strings; a buffer, a file or a text value is a  *)
(* sequence of bytes.  A field store (sealfield chain) is a function from  *)
(* field names to values; the NULL chain is the empty function.            *)
(*                                                                         *)
(* size_t / uint64_t values are kept as integers standing for their value  *)
(* modulo 2^64: a negative integer -k stands for 2^64-k.  All magnitudes   *)
(* in the model stay far below 2^31, so the representation is exact and    *)
(* the unsigned comparisons are ULt / UGt below.                           *)
(*                                                                         *)
(* EVP digests are modelled as a collision-free function: a digest value   *)
(* is the record of the algorithm and the byte stream that was fed to it.  *)
(***************************************************************************)
EXTENDS Integers, Sequences, FiniteSets, TLC

(***************************************************************************)
(* Routines call one another by name: Call(f, a) applies the routine named *)
(* f to the argument list a.  The table of routines is at the end of the   *)
(* batch driver, after every routine has been defined.                     *)
(***************************************************************************)
RECURSIVE Call(_, _)

(***************************************************************************)
(* Bounds of the model                                                     *)
(***************************************************************************)
MaxB == 4

(***************************************************************************)
(* Bytes and text                                                          *)
(*                                                                         *)
(* A byte is a string: the character itself for printable ASCII, the TLA+  *)
(* escape for TAB, LF and CR, and "xHH" for every other value.  Chr lists  *)
(* the 256 bytes by value; Ord is its inverse.  Str turns a string literal *)
(* into the sequence of its bytes.                                         *)
(***************************************************************************)
Chr ==
  <<
  "x00", "x01", "x02", "x03", "x04", "x05", "x06", "x07",
  "x08", "\t", "\n", "x0B", "x0C", "\r", "x0E", "x0F",
  "x10", "x11", "x12", "x13", "x14", "x15", "x16", "x17",
  "x18", "x19", "x1A", "x1B", "x1C", "x1D", "x1E", "x1F",
  " ", "!", "\"", "#", "$", "%", "&", "'",
  "(", ")", "*", "+", ",", "-", ".", "/",
  "0", "1", "2", "3", "4", "5", "6", "7",
  "8", "9", ":", ";", "<", "=", ">", "?",
  "@", "A", "B", "C", "D", "E", "F", "G",
  "H", "I", "J", "K", "L", "M", "N", "O",
  "P", "Q", "R", "S", "T", "U", "V", "W",
  "X", "Y", "Z", "[", "\\", "]", "^", "_",
  "x60", "a", "b", "c", "d", "e", "f", "g",
  "h", "i", "j", "k", "l", "m", "n", "o",
  "p", "q", "r", "s", "t", "u", "v", "w",
  "x", "y", "z", "{", "|", "}", "~", "x7F",
  "x80", "x81", "x82", "x83", "x84", "x85", "x86", "x87",
  "x88", "x89", "x8A", "x8B", "x8C", "x8D", "x8E", "x8F",
  "x90", "x91", "x92", "x93", "x94", "x95", "x96", "x97",
  "x98", "x99", "x9A", "x9B", "x9C", "x9D", "x9E", "x9F",
  "xA0", "xA1", "xA2", "xA3", "xA4", "xA5", "xA6", "xA7",
  "xA8", "xA9", "xAA", "xAB", "xAC", "xAD", "xAE", "xAF",
  "xB0", "xB1", "xB2", "xB3", "xB4", "xB5", "xB6", "xB7",
  "xB8", "xB9", "xBA", "xBB", "xBC", "xBD", "xBE", "xBF",
  "xC0", "xC1", "xC2", "xC3", "xC4", "xC5", "xC6", "xC7",
  "xC8", "xC9", "xCA", "xCB", "xCC", "xCD", "xCE", "xCF",
  "xD0", "xD1", "xD2", "xD3", "xD4", "xD5", "xD6", "xD7",
  "xD8", "xD9", "xDA", "xDB", "xDC", "xDD", "xDE", "xDF",
  "xE0", "xE1", "xE2", "xE3", "xE4", "xE5", "xE6", "xE7",
  "xE8", "xE9", "xEA", "xEB", "xEC", "xED", "xEE", "xEF",
  "xF0", "xF1", "xF2", "xF3", "xF4", "xF5", "xF6", "xF7",
  "xF8", "xF9", "xFA", "xFB", "xFC", "xFD", "xFE", "xFF"
  >>

RECURSIVE OrdRange(_, _)
OrdRange(lo, hi) ==
  IF lo = hi THEN (Chr[lo + 1] :> lo)
  ELSE OrdRange(lo, (lo + hi) \div 2) @@ OrdRange(((lo + hi) \div 2) + 1, hi)
OrdTable == OrdRange(0, 255)
Ord(c) == OrdTable[c]

Str(s) == [k \in 1..Len(s) |-> SubSeq(s, k, k)]

NUL == "x00"

\* <ctype.h> in the C locale
isspace(c) == c \in {" ", "\t", "\n", "x0B", "x0C", "\r"}

isdigit(c) == c \in {"0","1","2","3","4","5","6","7","8","9"}

UpperCase == {"A","B","C","D","E","F","G","H","I","J","K","L","M",
              "N","O","P","Q","R","S","T","U","V","W","X","Y","Z"}

LowerCase == {"a","b","c","d","e","f","g","h","i","j","k","l","m",
              "n","o","p","q","r","s","t","u","v","w","x","y","z"}

isupper(c) == c \in UpperCase

islower(c) == c \in LowerCase

isalpha(c) == isupper(c) \/ islower(c)

isalnum(c) == isalpha(c) \/ isdigit(c)

isxdigit(c) == isdigit(c) \/ c \in {"a","b","c","d","e","f","A","B","C","D","E","F"}

tolower(c) == IF isupper(c) THEN Chr[Ord(c) + 33] ELSE c

\* Text[i] for a 0-based offset; a read past the end of the buffer (the
\* terminating NUL of a text field, the zero fill after a mapped file) is NUL
At(Text, i) == IF i >= 0 /\ i < Len(Text) THEN Text[i + 1] ELSE NUL

\* !memcmp(Text+i, pat, strlen(pat))
Match(Text, i, pat) == \A k \in 1..Len(pat) : At(Text, i + k - 1) = pat[k]

\* !strncasecmp(Text+i, pat, strlen(pat))
MatchCase(Text, i, pat) == \A k \in 1..Len(pat) : tolower(At(Text, i + k - 1)) = tolower(pat[k])

\* strstr(Text, pat) != NULL
StrStr(Text, pat) == \E i \in 0..Len(Text) : i + Len(pat) <= Len(Text) /\ Match(Text, i, pat)

(***************************************************************************)
(* Characters                                                              *)
(***************************************************************************)
Digit == {"0","1","2","3","4","5","6","7","8","9"}

DigitChars == <<"0","1","2","3","4","5","6","7","8","9">>

DigitVal(c) == (CHOOSE n \in 1..10 : DigitChars[n] = c) - 1

Anchor == {"p","P","s","S","f","F"}

NoFile == <<"@nofile">>

(***************************************************************************)
(* Unsigned 64-bit comparison on the signed representation                 *)
(***************************************************************************)
ULt(a, b) == IF (a < 0) = (b < 0) THEN a < b ELSE b < 0

UGt(a, b) == ULt(b, a)

(***************************************************************************)
(* Field store (seal.cpp)                                                  *)
(***************************************************************************)
NULLREC == << >>

SealSearch(vf, Field) == Field \in DOMAIN vf

SealDel(vfhead, Field) == [k \in (DOMAIN vfhead) \ {Field} |-> vfhead[k]]

SealSet(vfhead, Field, Value) ==
  [k \in (DOMAIN vfhead) \cup {Field} |-> IF k = Field THEN Value ELSE vfhead[k]]

SealGetSize(vfhead, Field) ==
  IF SealSearch(vfhead, Field) THEN Len(vfhead[Field]) ELSE 0

SealCopy(vfhead, NewField, OldField) ==
  IF NewField = OldField THEN vfhead
  ELSE IF ~SealSearch(vfhead, OldField) THEN SealDel(vfhead, NewField)
  ELSE SealSet(vfhead, NewField, vfhead[OldField])

SealCopy2(vfhead2, Field2, vfhead1, Field1) ==
  IF vfhead1 = NULLREC THEN vfhead2
  ELSE IF ~SealSearch(vfhead1, Field1) THEN SealDel(vfhead2, Field2)
  ELSE SealSet(vfhead2, Field2, vfhead1[Field1])

SealMove(vfhead, NewField, OldField) ==
  IF NewField = OldField THEN vfhead
  ELSE IF SealSearch(vfhead, NewField) THEN SealDel(vfhead, NewField)
  ELSE IF ~SealSearch(vfhead, OldField) THEN vfhead
  ELSE SealSet(SealDel(vfhead, OldField), NewField, vfhead[OldField])

\* append bytes to a text/binary field, creating it when absent
SealAddBin(vfhead, Field, Value) ==
  IF Value = << >> THEN vfhead
  ELSE IF SealSearch(vfhead, Field) THEN SealSet(vfhead, Field, vfhead[Field] \o Value)
  ELSE SealSet(vfhead, Field, Value)

\* SealAddC hands the address of its one-character parameter to
\* SealAddTextLen; when the field is absent SealSetText takes strlen() of it,
\* so the new field holds the character and whatever bytes follow it on the
\* stack up to the first NUL (junk).
SealAddC(vfhead, Field, c, junk) ==
  IF SealSearch(vfhead, Field) THEN SealSet(vfhead, Field, Append(vfhead[Field], c))
  ELSE SealSet(vfhead, Field, <<c>> \o junk)

SealAddI(vfhead, Field, v) == SealAddBin(vfhead, Field, <<v>>)

\* array element read: 0 when the field or the index is missing
SealGetGindex(vfhead, Field, Index) ==
  IF SealSearch(vfhead, Field) /\ Index < Len(vfhead[Field]) THEN vfhead[Field][Index + 1] ELSE 0

SealGetIindex(vfhead, Field, Index) == SealGetGindex(vfhead, Field, Index)

\* array element write: creates the field, grows it zero-filled; NULL chain stays NULL
SealSetGindex(vfhead, Field, Index, Value) ==
  IF vfhead = NULLREC THEN NULLREC
  ELSE LET old == IF SealSearch(vfhead, Field) THEN vfhead[Field] ELSE << >>
           n   == IF Index + 1 > Len(old) THEN Index + 1 ELSE Len(old)
       IN SealSet(vfhead, Field,
                  [j \in 1..n |-> IF j = Index + 1 THEN Value
                                  ELSE IF j <= Len(old) THEN old[j] ELSE 0])

SealSetIindex(vfhead, Field, Index, Value) == SealSetGindex(vfhead, Field, Index, Value)

SealIncIindex(vfhead, Field, Index, IncValue) ==
  SealSetGindex(vfhead, Field, Index, SealGetIindex(vfhead, Field, Index) + IncValue)

(***************************************************************************)
(* Process termination inside a call chain.  A call that ends the process  *)
(* (exit(), or a fault such as a NULL dereference) leaves "@halt" in the   *)
(* store it returns, and every caller returns at once when it sees it.     *)
(***************************************************************************)
Halt(Rec, how, code) == SealSet(Rec, "@halt", [how |-> how, code |-> code])

Halted(Rec) == SealSearch(Rec, "@halt")

Fault(Rec) == Halt(Rec, "signal", 11)

\* SealGetText(): the text up to its terminating NUL
RECURSIVE CText(_)
CText(t) == IF t = << >> \/ Head(t) = NUL THEN << >> ELSE <<Head(t)>> \o CText(Tail(t))

\* SealAddText(vfhead, Field, SealGetText(src, From)): nothing when From is absent
SealAddText(vfhead, Field, Value) == SealAddBin(vfhead, Field, CText(Value))

SealAddField(vfhead, Field, src, From) ==
  IF SealSearch(src, From) THEN SealAddText(vfhead, Field, src[From]) ELSE vfhead

SealAddTextPad(vfhead, Field, PadLen, Pad) ==
  IF PadLen < 1 THEN vfhead
  ELSE LET old == IF SealSearch(vfhead, Field) THEN vfhead[Field] ELSE << >>
       IN SealSet(vfhead, Field,
                  old \o [k \in 1..PadLen |->
                            IF Pad = << >> THEN " " ELSE Pad[((k - 1) % Len(Pad)) + 1]])

\* 0 equal, nonzero different (only the zero test is used by the callers)
SealCmp2(vfhead1, Field1, vfhead2, Field2) ==
  LET d1 == SealSearch(vfhead1, Field1)
      d2 == SealSearch(vfhead2, Field2)
  IN IF ~d1 /\ ~d2 THEN 0
     ELSE IF ~d1 \/ ~d2 THEN 1
     ELSE IF vfhead1[Field1] = vfhead2[Field2] THEN 0 ELSE 1

SealCmp(vfhead, Field1, Field2) ==
  IF vfhead = NULLREC THEN 0 ELSE SealCmp2(vfhead, Field1, vfhead, Field2)

(***************************************************************************)
(* Encodings (seal-parse.cpp)                                              *)
(***************************************************************************)
\* a NUL-terminated byte string as a field name
RECURSIVE CStr(_)
CStr(t) == IF t = << >> \/ Head(t) = NUL THEN "" ELSE Head(t) \o CStr(Tail(t))

\* drop each backslash and keep the byte after it; the byte after a final
\* backslash is the NUL that terminates the text field
RECURSIVE SealStrDecodeFrom(_, _)
SealStrDecodeFrom(Value, i) ==
  IF i >= Len(Value) THEN << >>
  ELSE LET k == IF At(Value, i) = "\\" THEN i + 1 ELSE i
       IN <<At(Value, k)>> \o SealStrDecodeFrom(Value, k + 1)

SealStrDecode(Value) == SealStrDecodeFrom(Value, 0)

RECURSIVE SealStrEncode(_)
SealStrEncode(Value) ==
  IF Value = << >> THEN << >>
  ELSE (IF Head(Value) \in {"'", "\"", "\\"} THEN <<"\\", Head(Value)>> ELSE <<Head(Value)>>)
       \o SealStrEncode(Tail(Value))

HexDigits == <<"0","1","2","3","4","5","6","7","8","9","a","b","c","d","e","f">>

HexVal(c) == (CHOOSE n \in 1..16 : HexDigits[n] = tolower(c)) - 1

\* invalid or odd-length input decodes to nothing
SealHexDecode(Value) ==
  IF Len(Value) % 2 # 0 \/ \E k \in 1..Len(Value) : ~isxdigit(Value[k]) THEN << >>
  ELSE [k \in 1..(Len(Value) \div 2) |->
          Chr[HexVal(Value[2 * k - 1]) * 16 + HexVal(Value[2 * k]) + 1]]

SealHexEncode(Value, IsUpper) ==
  [k \in 1..(2 * Len(Value)) |->
     LET b == Ord(Value[(k + 1) \div 2])
         d == HexDigits[(IF k % 2 = 1 THEN b \div 16 ELSE b % 16) + 1]
     IN IF IsUpper /\ islower(d) THEN Chr[Ord(d) - 31] ELSE d]

Base64Digits ==
  <<"A","B","C","D","E","F","G","H","I","J","K","L","M","N","O","P",
    "Q","R","S","T","U","V","W","X","Y","Z","a","b","c","d","e","f",
    "g","h","i","j","k","l","m","n","o","p","q","r","s","t","u","v",
    "w","x","y","z","0","1","2","3","4","5","6","7","8","9","+","/">>

Base64Val(c) == (CHOOSE n \in 1..64 : Base64Digits[n] = c) - 1

IsBase64Digit(c) == \E n \in 1..64 : Base64Digits[n] = c

RECURSIVE SealBase64Encode(_)
SealBase64Encode(Value) ==
  IF Value = << >> THEN << >>
  ELSE LET n  == Len(Value)
           b0 == Ord(Value[1])
           b1 == IF n >= 2 THEN Ord(Value[2]) ELSE 0
           b2 == IF n >= 3 THEN Ord(Value[3]) ELSE 0
           q  == b0 * 65536 + b1 * 256 + b2
       IN << Base64Digits[q \div 262144 + 1],
             Base64Digits[((q \div 4096) % 64) + 1],
             IF n >= 2 THEN Base64Digits[((q \div 64) % 64) + 1] ELSE "=",
             IF n >= 3 THEN Base64Digits[(q % 64) + 1] ELSE "=" >>
          \o SealBase64Encode(SubSeq(Value, 4, n))

\* the text as the decoder BIO sees it: padded with "=" to a multiple of 4
Base64Pad(Value) ==
  Value \o [k \in 1..((4 - (Len(Value) % 4)) % 4) |-> "="]

\* well-formed base64: digits, with "=" only as the last one or two bytes
Base64Valid(V) ==
  /\ Len(V) % 4 = 0
  /\ \A k \in 1..Len(V) :
       \/ IsBase64Digit(V[k])
       \/ V[k] = "=" /\ k >= Len(V) - 1 /\ k > 2 /\ (k = Len(V) \/ V[Len(V)] = "=")

RECURSIVE Base64Bytes(_)
Base64Bytes(V) ==
  IF V = << >> THEN << >>
  ELSE LET v(k) == IF V[k] = "=" THEN 0 ELSE Base64Val(V[k])
           q    == v(1) * 262144 + v(2) * 4096 + v(3) * 64 + v(4)
           out  == <<Chr[q \div 65536 + 1], Chr[((q \div 256) % 256) + 1], Chr[(q % 256) + 1]>>
           keep == IF V[3] = "=" THEN 1 ELSE IF V[4] = "=" THEN 2 ELSE 3
       IN SubSeq(out, 1, keep) \o Base64Bytes(SubSeq(V, 5, Len(V)))

\* SealBase64Decode: [ok, Value].  Empty input is left as it is.  When the
\* BIO yields no byte, D stays NULL and the swap that follows reads D->Value:
\* ok is FALSE (a NULL dereference).
SealBase64Decode(Value) ==
  IF Value = << >> THEN [ok |-> TRUE, Value |-> << >>]
  ELSE LET V == Base64Pad(Value)
       IN IF Base64Valid(V) /\ Base64Bytes(V) # << >>
            THEN [ok |-> TRUE, Value |-> Base64Bytes(V)]
          ELSE [ok |-> FALSE, Value |-> << >>]

\* the entity table: len bytes of code are compared and copied, and for
\* "&lt;" and "&gt;" len counts the terminating NUL of the literal
entities ==
  << [len |-> 5, code |-> <<"&","l","t",";",NUL>>,     c |-> "<"],
     [len |-> 5, code |-> <<"&","g","t",";",NUL>>,     c |-> ">"],
     [len |-> 6, code |-> <<"&","q","u","o","t",";">>, c |-> "\""],
     [len |-> 6, code |-> <<"&","a","p","o","s",";">>, c |-> "'"],
     [len |-> 5, code |-> <<"&","a","m","p",";">>,     c |-> "&"] >>

\* the bytes a numeric character reference n is replaced by
XmlCodeBytes(n) ==
  IF n > 16777215 THEN <<Chr[((n \div 16777216) % 256) + 1], Chr[((n \div 65536) % 256) + 1],
                         Chr[((n \div 256) % 256) + 1], Chr[(n % 256) + 1]>>
  ELSE IF n > 65535 THEN <<Chr[((n \div 65536) % 256) + 1], Chr[((n \div 256) % 256) + 1],
                           Chr[(n % 256) + 1]>>
  ELSE IF n > 255 THEN <<Chr[((n \div 256) % 256) + 1], Chr[(n % 256) + 1]>>
  ELSE IF n > 0 THEN <<Chr[(n % 256) + 1]>>
  ELSE << >>

\* the decoding loop, in place: V is the buffer, i the read and j the write index
RECURSIVE SealXmlDecodeLoop(_, _, _)
SealXmlDecodeLoop(V, i, j) ==
  IF i >= Len(V) THEN SubSeq(V, 1, j)
  ELSE
  LET V1 == IF i # j THEN [V EXCEPT ![j + 1] = At(V, i)] ELSE V
      IsNum(c, radix) == IF radix = 16 THEN isxdigit(c) ELSE isdigit(c)
      NumEnd(k, radix) ==
        CHOOSE e \in k..Len(V) :
          /\ \A m \in k..(e - 1) : IsNum(At(V, m), radix)
          /\ (e = Len(V) \/ ~IsNum(At(V, e), radix))
      NumVal(k, e, radix) ==
        LET F[m \in (k - 1)..(e - 1)] ==
              IF m = k - 1 THEN 0 ELSE F[m - 1] * radix + HexVal(At(V, m))
        IN F[e - 1]
      Code(k, radix) ==
        LET e     == NumEnd(k, radix)
            bytes == XmlCodeBytes(NumVal(k, e, radix))
            V2    == [m \in 1..Len(V1) |->
                        IF m > j /\ m <= j + Len(bytes) THEN bytes[m - j] ELSE V1[m]]
        IN SealXmlDecodeLoop(V2, e + 2, j + Len(bytes) + 1)
      Hit(e) == i + entities[e].len <= Len(V) /\ Match(V, i, entities[e].code)
  IN
  IF i + 5 <= Len(V) /\ Match(V, i, <<"&","#","x">>) THEN Code(i + 3, 16)
  ELSE IF i + 4 <= Len(V) /\ Match(V, i, <<"&","#">>) THEN Code(i + 2, 10)
  ELSE IF \E e \in 1..Len(entities) : Hit(e)
    THEN LET e == CHOOSE e \in 1..Len(entities) : Hit(e) /\ \A f \in 1..(e - 1) : ~Hit(f)
         IN SealXmlDecodeLoop([V1 EXCEPT ![j + 1] = entities[e].c],
                              i + entities[e].len, j + 1)
  ELSE SealXmlDecodeLoop(V1, i + 1, j + 1)

SealXmlDecode(Value) == Call("SealXmlDecodeLoop", <<Value, 0, 0>>)

\* the copy loop of SealXmlEncode from byte i on: a byte that is not
\* printable becomes "&#xhh;", a byte with an entity whose len bytes fit
\* between i and the end of the value becomes the entity, any other is copied
RECURSIVE SealXmlEncodeFrom(_, _)
SealXmlEncodeFrom(Value, i) ==
  IF i >= Len(Value) THEN << >>
  ELSE LET c      == At(Value, i)
           Hit(e) == i + entities[e].len <= Len(Value) /\ c = entities[e].c
       IN (IF ~(Ord(c) >= 32 /\ Ord(c) <= 126)
             THEN <<"&", "#", "x", HexDigits[(Ord(c) \div 16) + 1],
                    HexDigits[(Ord(c) % 16) + 1], ";">>
           ELSE IF \E e \in 1..Len(entities) : Hit(e)
             THEN entities[CHOOSE e \in 1..Len(entities) : Hit(e)].code
           ELSE <<c>>)
          \o SealXmlEncodeFrom(Value, i + 1)

SealXmlEncode(Value) == IF Value = << >> THEN << >> ELSE SealXmlEncodeFrom(Value, 0)

(***************************************************************************)
(* Record parser (seal-parse.cpp)                                          *)
(*                                                                         *)
(* Text is the buffer from the parse pointer to the end of the mapping, so *)
(* that a read at Text[TextLen] sees the byte that really follows.  Quote  *)
(* is a byte: NUL for 0 and "x01" for the &quot; marker.                   *)
(***************************************************************************)
QuoteXml == "x01"

\* the value scan of state 2: [i, ve, found]
RECURSIVE ParseValueScan(_, _, _, _)
ParseValueScan(Text, TextLen, i, Quote) ==
  IF i >= TextLen THEN [i |-> i, ve |-> 0, found |-> FALSE]
  ELSE IF At(Text, i) = "\\" THEN ParseValueScan(Text, TextLen, i + 2, Quote)
  ELSE IF Quote = NUL /\ At(Text, i) \in {" ", "<", ">", NUL}
    THEN [i |-> i, ve |-> i, found |-> TRUE]
  ELSE IF Quote # QuoteXml /\ At(Text, i) = Quote
    THEN [i |-> i + 1, ve |-> i, found |-> TRUE]
  ELSE IF Quote = QuoteXml /\ i + 6 < TextLen /\ Match(Text, i, Str("&quot;"))
    THEN [i |-> i + 6, ve |-> i, found |-> TRUE]
  ELSE ParseValueScan(Text, TextLen, i + 1, Quote)

\* state 3: store the attribute fs..fe = vs..ve in Rec
ParseStore(Rec, Text, fs, fe, vs, ve, Quote, Offset, Args) ==
  LET Rec0  == SealSet(Rec, "@field", SubSeq(Text, fs + 1, fe))
      Field == CStr(Rec0["@field"])
      Rec1  == IF Field = "s"
               THEN LET r == SealSetIindex(SealSetIindex(SealSetIindex(Rec0,
                               "@s", 0, Offset + vs),
                               "@s", 1, Offset + ve),
                               "@s", 2, SealGetIindex(Args, "@s", 2) + 1)
                    IN IF Args = NULLREC THEN r
                       ELSE SealCopy2(SealCopy2(SealCopy2(SealCopy2(SealCopy2(r,
                              "@p", Args, "@s"),
                              "@dnscachelast", Args, "@dnscachelast"),
                              "@public", Args, "@public"),
                              "@publicbin", Args, "@publicbin"),
                              "dnsfile", Args, "dnsfile")
               ELSE Rec0
      Value == SubSeq(Text, vs + 1, ve)
  IN SealDel(SealSet(Rec1, Field,
                     IF Quote # QuoteXml THEN SealStrDecode(Value) ELSE Call("SealXmlDecode", <<Value>>)),
             "@field")

\* one pass through the body of the for-loop; i++ is applied by ParseLoop
ParseStep(st0, TextLen, Text, Offset, Args) ==
  LET st == IF st0.IsBad THEN [st0 EXCEPT !.Rec = NULLREC, !.IsBad = FALSE, !.State = 0] ELSE st0
      i  == st.i
      c  == At(Text, i)
      M(k, pat) == Match(Text, k, Str(pat))
  IN
  IF st.State = 0 THEN
    IF c \notin {"<", "&", "!"} THEN st
    ELSE IF i + 6 < TextLen /\ M(i, "<seal ") THEN [st EXCEPT !.i = i + 6, !.State = 1, !.IsXML = 0]
    ELSE IF i + 9 < TextLen /\ M(i, "&lt;seal ") THEN [st EXCEPT !.i = i + 9, !.State = 1, !.IsXML = 1]
    ELSE IF i + 7 < TextLen /\ MatchCase(Text, i, Str("<?seal "))
      THEN [st EXCEPT !.i = i + 7, !.State = 1, !.IsXML = 2]
    ELSE [st EXCEPT !.IsBad = TRUE]
  ELSE IF st.State = 1 THEN
    IF isspace(c) THEN st
    ELSE IF \/ st.IsXML = 0 /\ (c = ">" \/ M(i, "/>") \/ M(i, "</"))
            \/ st.IsXML = 2 /\ M(i, "?>")
            \/ st.IsXML = 1 /\ \/ i + 4 <= TextLen /\ M(i, "&gt;")
                               \/ i + 5 <= TextLen /\ M(i, "/&gt;")
                               \/ i + 5 <= TextLen /\ M(i, "&lt;/")
      THEN [st EXCEPT !.Done = TRUE]
    ELSE
      LET back == \/ st.IsXML \in {0, 2} /\ c = "<"
                  \/ st.IsXML = 1 /\ i + 4 <= TextLen /\ M(i, "&lt;")
          i1   == IF back THEN i - 1 ELSE i
          bad  == \/ back
                  \/ st.IsXML = 2 /\ At(Text, i1) = ">"
                  \/ ~isalpha(At(Text, i1))
          fe   == CHOOSE e \in i1..(IF TextLen > i1 THEN TextLen ELSE i1) :
                    /\ \A m \in i1..(e - 1) : isalnum(At(Text, m))
                    /\ ~(e < TextLen /\ isalnum(At(Text, e)))
      IN IF At(Text, fe) = "="
           THEN [st EXCEPT !.IsBad = bad, !.fs = i1, !.fe = fe, !.i = fe, !.State = 2]
         ELSE [st EXCEPT !.IsBad = bad, !.fs = i1, !.fe = fe, !.i = fe - 1, !.State = 0]
  ELSE IF st.State = 2 THEN
    LET q1 == IF c \in {"\"", "'", NUL} THEN [Quote |-> c, i |-> i + 1]
              ELSE [Quote |-> NUL, i |-> i]
        q2 == IF st.IsXML # 0 /\ q1.i + 6 < TextLen /\ M(q1.i, "&quot;")
              THEN [Quote |-> QuoteXml, i |-> q1.i + 6] ELSE q1
        vs == q2.i
        sc == ParseValueScan(Text, TextLen, vs, q2.Quote)
    IN
    IF ~sc.found
      THEN [st EXCEPT !.Quote = q2.Quote, !.vs = vs, !.i = sc.i - 1, !.IsBad = TRUE]
    ELSE
      LET Rec == ParseStore(st.Rec, Text, st.fs, st.fe, vs, sc.ve, q2.Quote, Offset, Args)
          st3 == [st EXCEPT !.Quote = q2.Quote, !.vs = vs, !.ve = sc.ve, !.i = sc.i,
                            !.State = 3, !.Rec = Rec]
          e   == At(Text, sc.i)
          gt  == CHOOSE k \in sc.i..(IF TextLen > sc.i THEN TextLen ELSE sc.i) :
                   /\ \A m \in sc.i..(k - 1) : At(Text, m) # ">"
                   /\ ~(k < TextLen /\ At(Text, k) # ">")
          xgt == CHOOSE k \in sc.i..(IF TextLen > sc.i THEN TextLen ELSE sc.i) :
                   /\ \A m \in sc.i..(k - 1) : m + 4 <= TextLen /\ ~M(m, "&gt;")
                   /\ ~(k + 4 <= TextLen /\ ~M(k, "&gt;"))
      IN
      IF isspace(e) THEN [st3 EXCEPT !.State = 1]
      ELSE IF e \in {"<", ">", "/", NUL}
        THEN [st3 EXCEPT !.i = IF At(Text, gt) = ">" THEN gt + 1 ELSE gt, !.Done = TRUE]
      ELSE IF st.IsXML = 2
        THEN IF sc.i + 2 <= TextLen /\ M(sc.i, "?>")
               THEN [st3 EXCEPT !.i = sc.i + 2, !.Done = TRUE]
             ELSE st3
      ELSE IF st.IsXML # 0 /\ sc.i + 4 <= TextLen /\ (M(sc.i, "&lt;") \/ M(sc.i, "&gt;"))
        THEN [st3 EXCEPT !.i = IF xgt + 4 <= TextLen /\ M(xgt, "&gt;") THEN xgt + 4 ELSE xgt,
                         !.Done = TRUE]
      ELSE [st3 EXCEPT !.IsBad = TRUE]
  ELSE [st EXCEPT !.IsBad = TRUE]

\* one pass through the for-loop, i++ included; nothing once the loop has ended
ParsePass(st, TextLen, Text, Offset, Args) ==
  IF st.Done \/ st.i >= TextLen THEN st
  ELSE LET n == Call("ParseStep", <<st, TextLen, Text, Offset, Args>>)
       IN IF n.Done THEN n ELSE [n EXCEPT !.i = n.i + 1]

\* n passes through the for-loop
RECURSIVE ParsePasses(_, _, _, _, _, _)
ParsePasses(st, n, TextLen, Text, Offset, Args) ==
  IF st.Done \/ st.i >= TextLen \/ n = 0 THEN st
  ELSE IF n = 1 THEN Call("ParsePass", <<st, TextLen, Text, Offset, Args>>)
  ELSE ParsePasses(ParsePasses(st, n \div 2, TextLen, Text, Offset, Args),
                   n - (n \div 2), TextLen, Text, Offset, Args)

\* the for-loop: every pass advances i, so TextLen passes end it
ParseLoop(st, TextLen, Text, Offset, Args) == Call("ParsePasses", <<st, TextLen, TextLen, Text, Offset, Args>>)

\* NULLREC when no record is found
SealParse(TextLen, Text, Offset, Args) ==
  IF TextLen < 10 THEN NULLREC
  ELSE LET st == ParseLoop([i |-> 0, State |-> 0, IsXML |-> 0, Quote |-> NUL, fs |-> 0, fe |-> 0,
                            vs |-> 0, ve |-> 0, IsBad |-> FALSE, Rec |-> NULLREC, Done |-> FALSE],
                           TextLen, Text, Offset, Args)
       IN IF st.Rec = NULLREC THEN NULLREC
          ELSE SealSetIindex(st.Rec, "@RecEnd", 0, st.i)

(***************************************************************************)
(* Digest engine (sign-digest.cpp)                                         *)
(***************************************************************************)
\* the hash of a byte stream under algorithm mdf
EVP_Digest(mdf, stream) == [da |-> mdf, data |-> stream]

DigestAlgs == {<<"s","h","a","2","5","6">>, <<"s","h","a","2","2","4">>,
               <<"s","h","a","3","8","4">>, <<"s","h","a","5","1","2">>}

\* NULL when the algorithm is not supported; a missing da defaults to sha256
SealGetMdfFromString(Rec) ==
  IF ~SealSearch(Rec, "da") THEN <<"s","h","a","2","5","6">>
  ELSE IF Rec["da"] \in DigestAlgs THEN Rec["da"] ELSE << >>

\* the error text RangeErrorCheck leaves behind ("" when it sets none)
RangeErrorCheck(sum0, sum1, memsize) ==
  IF sum0 = sum1 THEN ""
  ELSE IF ~ULt(sum0, sum1) THEN "Invalid range; start of range is after end of range"
  ELSE IF UGt(sum1, memsize) THEN "Invalid range; end of range is beyond end of file"
  ELSE IF UGt(sum0, memsize) THEN "Invalid range; start of range is beyond end of file"
  ELSE ""

ValidChar(state) ==
  CASE state = 0 -> {"+","-","~"} \cup Anchor \cup Digit
    [] state = 1 -> {"+","-","~"}
    [] state = 2 -> Anchor \cup Digit
    [] state = 3 -> {"+","-",","} \cup Anchor \cup Digit
    [] state = 4 -> {"+","-",","}
    [] state = 5 -> Anchor \cup Digit

\* AnchorValue with 's' read as the start of the signature
AnchorValueEndAsStart(c, s, p, memsize) ==
  CASE c = "S" -> s[1]
    [] c = "s" -> s[1]
    [] c = "P" -> p[1]
    [] c = "p" -> p[2]
    [] c = "F" -> 0
    [] c = "f" -> memsize

AnchorValue(c, s, p, memsize) ==
  CASE c = "S" -> s[1]
    [] c = "s" -> s[2]
    [] c = "P" -> p[1]
    [] c = "p" -> p[2]
    [] c = "F" -> 0
    [] c = "f" -> memsize

\* bytes [lo, hi) of a mapped file
Bytes(mem, lo, hi) == SubSeq(mem, lo + 1, hi)

\* the parser state the for-loop carries
DigestStart(Rec) ==
  [Rec |-> Rec, state |-> 0, acc |-> 0, sum0 |-> 0, sum1 |-> 0, Addsym |-> 1,
   stream |-> << >>, segs |-> << >>, abort |-> FALSE]

\* DigestChar with the preface hashed at every P, whatever @p holds
DigestCharPrefaceAtAnyP(st, c, s, p, mem, MmapPre, junk) ==
  LET memsize == Len(mem)
      lhs     == st.state < 3
  IN
  IF c \notin ValidChar(st.state)
    THEN [st EXCEPT !.Rec = SealSet(st.Rec, "@error", "Invalid range in b"), !.abort = TRUE]
  ELSE IF c \in {"+","-"}
    THEN [st EXCEPT !.sum0 = IF lhs THEN st.sum0 + st.acc * st.Addsym ELSE st.sum0,
                    !.sum1 = IF lhs THEN st.sum1 ELSE st.sum1 + st.acc * st.Addsym,
                    !.state = IF lhs THEN 2 ELSE 5,
                    !.Addsym = IF c = "+" THEN 1 ELSE -1,
                    !.acc = 0]
  ELSE IF (c \in {"S","s"} /\ s = << >>) \/ (c \in {"P","p"} /\ p = << >>)
    THEN [st EXCEPT !.Rec = Fault(st.Rec), !.abort = TRUE]   \* s[] or p[] is NULL
  ELSE IF c \in Anchor
    THEN LET v   == AnchorValue(c, s, p, memsize)
             pre == IF MmapPre # NoFile /\ (c = "F" \/ c = "P")
                    THEN MmapPre ELSE << >>
         IN [st EXCEPT !.stream = st.stream \o pre,
                       !.sum0 = IF lhs THEN st.sum0 + v * st.Addsym ELSE st.sum0,
                       !.sum1 = IF lhs THEN st.sum1 ELSE st.sum1 + v * st.Addsym,
                       !.state = IF lhs THEN 1 ELSE 4,
                       !.Rec = SealAddC(st.Rec, IF lhs THEN "@sflags0" ELSE "@sflags1", c, junk),
                       !.acc = 0]
  ELSE IF c \in Digit
    THEN [st EXCEPT !.acc = st.acc * 10 + DigitVal(c),
                    !.state = IF lhs THEN 0 ELSE 3]
  ELSE IF c = "~"
    THEN [st EXCEPT !.sum0 = st.sum0 + st.acc * st.Addsym,
                    !.acc = 0, !.Addsym = 1, !.state = 3]
  ELSE \* c = ","  end of range
    LET sum1 == IF st.state = 3 /\ st.acc = 0 THEN memsize
                ELSE st.sum1 + st.acc * st.Addsym
        sum0 == st.sum0
        seg  == <<sum0, sum1>>
    IN IF ULt(sum1, sum0) \/ UGt(sum0, memsize) \/ UGt(sum1, memsize)
         THEN [st EXCEPT !.Rec = SealSet(st.Rec, "@error", "Invalid range in b"),
                         !.sum1 = sum1, !.segs = Append(st.segs, seg), !.abort = TRUE]
       ELSE IF RangeErrorCheck(sum0, sum1, memsize) # ""
         THEN [st EXCEPT !.Rec = SealSet(st.Rec, "@error", RangeErrorCheck(sum0, sum1, memsize)),
                         !.sum1 = sum1, !.segs = Append(st.segs, seg), !.abort = TRUE]
       ELSE [st EXCEPT !.Rec = IF UGt(sum1, sum0)
                                 THEN SealAddI(SealAddI(st.Rec, "@digestrange", sum0),
                                               "@digestrange", sum1)
                                 ELSE st.Rec,
                       !.stream = IF UGt(sum1, sum0) THEN st.stream \o Bytes(mem, sum0, sum1)
                                  ELSE st.stream,
                       !.segs = Append(st.segs, seg),
                       !.state = 0, !.acc = 0, !.sum0 = 0, !.sum1 = 0, !.Addsym = 1]

\* one iteration of the for-loop over b[i]
DigestChar(st, c, s, p, mem, MmapPre, junk) ==
  LET memsize == Len(mem)
      lhs     == st.state < 3
  IN
  IF c \notin ValidChar(st.state)
    THEN [st EXCEPT !.Rec = SealSet(st.Rec, "@error", "Invalid range in b"), !.abort = TRUE]
  ELSE IF c \in {"+","-"}
    THEN [st EXCEPT !.sum0 = IF lhs THEN st.sum0 + st.acc * st.Addsym ELSE st.sum0,
                    !.sum1 = IF lhs THEN st.sum1 ELSE st.sum1 + st.acc * st.Addsym,
                    !.state = IF lhs THEN 2 ELSE 5,
                    !.Addsym = IF c = "+" THEN 1 ELSE -1,
                    !.acc = 0]
  ELSE IF (c \in {"S","s"} /\ s = << >>) \/ (c \in {"P","p"} /\ p = << >>)
    THEN [st EXCEPT !.Rec = Fault(st.Rec), !.abort = TRUE]   \* s[] or p[] is NULL
  ELSE IF c \in Anchor
    THEN LET v   == AnchorValue(c, s, p, memsize)
             pre == IF MmapPre # NoFile /\ (c = "F" \/ (c = "P" /\ p[1] = 0))
                    THEN MmapPre ELSE << >>
         IN [st EXCEPT !.stream = st.stream \o pre,
                       !.sum0 = IF lhs THEN st.sum0 + v * st.Addsym ELSE st.sum0,
                       !.sum1 = IF lhs THEN st.sum1 ELSE st.sum1 + v * st.Addsym,
                       !.state = IF lhs THEN 1 ELSE 4,
                       !.Rec = SealAddC(st.Rec, IF lhs THEN "@sflags0" ELSE "@sflags1", c, junk),
                       !.acc = 0]
  ELSE IF c \in Digit
    THEN [st EXCEPT !.acc = st.acc * 10 + DigitVal(c),
                    !.state = IF lhs THEN 0 ELSE 3]
  ELSE IF c = "~"
    THEN [st EXCEPT !.sum0 = st.sum0 + st.acc * st.Addsym,
                    !.acc = 0, !.Addsym = 1, !.state = 3]
  ELSE \* c = ","  end of range
    LET sum1 == IF st.state = 3 /\ st.acc = 0 THEN memsize
                ELSE st.sum1 + st.acc * st.Addsym
        sum0 == st.sum0
        seg  == <<sum0, sum1>>
    IN IF ULt(sum1, sum0) \/ UGt(sum0, memsize) \/ UGt(sum1, memsize)
         THEN [st EXCEPT !.Rec = SealSet(st.Rec, "@error", "Invalid range in b"),
                         !.sum1 = sum1, !.segs = Append(st.segs, seg), !.abort = TRUE]
       ELSE IF RangeErrorCheck(sum0, sum1, memsize) # ""
         THEN [st EXCEPT !.Rec = SealSet(st.Rec, "@error", RangeErrorCheck(sum0, sum1, memsize)),
                         !.sum1 = sum1, !.segs = Append(st.segs, seg), !.abort = TRUE]
       ELSE [st EXCEPT !.Rec = IF UGt(sum1, sum0)
                                 THEN SealAddI(SealAddI(st.Rec, "@digestrange", sum0),
                                               "@digestrange", sum1)
                                 ELSE st.Rec,
                       !.stream = IF UGt(sum1, sum0) THEN st.stream \o Bytes(mem, sum0, sum1)
                                  ELSE st.stream,
                       !.segs = Append(st.segs, seg),
                       !.state = 0, !.acc = 0, !.sum0 = 0, !.sum1 = 0, !.Addsym = 1]

RECURSIVE DigestLoop(_, _, _, _, _, _, _, _)
DigestLoop(st, b, i, s, p, mem, MmapPre, junk) ==
  IF st.abort \/ i > Len(b) THEN st
  ELSE DigestLoop(DigestChar(st, b[i], s, p, mem, MmapPre, junk), b, i + 1, s, p, mem, MmapPre, junk)

\* after the loop: "No more string! Anything left to add?"
DigestTail(st0, mem) ==
  LET memsize == Len(mem)
      st   == IF st0.state = 3
              THEN [st0 EXCEPT !.sum1 = st0.sum1 + st0.acc * st0.Addsym, !.state = 4]
              ELSE st0
      sum0 == st.sum0
      sum1 == IF st.state = 5 THEN st.sum1 + st.acc * st.Addsym ELSE st.sum1
      err  == RangeErrorCheck(sum0, sum1, memsize)
      seg  == <<sum0, sum1>>
  IN
  IF st.state = 0 THEN st
  ELSE IF st.state = 4
    THEN IF err # ""
           THEN [st EXCEPT !.Rec = SealSet(st.Rec, "@error", err),
                           !.segs = Append(st.segs, seg), !.abort = TRUE]
         ELSE [st EXCEPT !.Rec = IF UGt(sum1, sum0)
                                   THEN SealAddI(SealAddI(st.Rec, "@digestrange", sum0),
                                                 "@digestrange", sum1)
                                   ELSE st.Rec,
                         !.stream = IF UGt(sum1, sum0) THEN st.stream \o Bytes(mem, sum0, sum1)
                                    ELSE st.stream,
                         !.segs = Append(st.segs, seg)]
  ELSE IF st.state = 5
    THEN IF err # ""
           THEN [st EXCEPT !.Rec = SealSet(st.Rec, "@error", err), !.sum1 = sum1,
                           !.segs = Append(st.segs, seg), !.abort = TRUE]
         ELSE [st EXCEPT !.sum1 = sum1, !.segs = Append(st.segs, seg)]
  ELSE [st EXCEPT !.Rec = SealSet(st.Rec, "@error", "Invalid range in b at end of string"),
                  !.abort = TRUE]

\* SealDigest with the bookkeeping of what was fed to the hash:
\*   Rec    the store returned
\*   stream the bytes given to EVP_DigestUpdate, in order
\*   segs   every (sum[0], sum[1]) pair the code range-checked, in order
SealDigestRun(Rec0, mem, MmapPre, junk) ==
  LET Rec1 == SealDel(SealDel(SealDel(SealDel(SealDel(SealDel(Rec0,
                "@error"), "@digestrange"), "@digest1"), "@digest2"), "@sflags0"), "@sflags1")
      s    == IF SealSearch(Rec1, "@s")
                THEN <<SealGetIindex(Rec1, "@s", 0), SealGetIindex(Rec1, "@s", 1)>>
                ELSE << >>
      p    == IF SealSearch(Rec1, "@p")
                THEN <<SealGetIindex(Rec1, "@p", 0), SealGetIindex(Rec1, "@p", 1)>>
                ELSE << >>
      mdf  == SealGetMdfFromString(Rec1)
  IN
  IF mdf = << >>
    THEN [Rec |-> SealSet(Rec1, "@error", "Unknown digest algorithm"),
          stream |-> << >>, segs |-> << >>]
  ELSE IF ~SealSearch(Rec1, "b")
    THEN [Rec |-> Fault(Rec1), stream |-> << >>, segs |-> << >>]   \* b[i] on NULL
  ELSE LET st1 == DigestLoop(DigestStart(Rec1), Rec1["b"], 1, s, p, mem, MmapPre, junk)
           st2 == IF st1.abort THEN st1 ELSE DigestTail(st1, mem)
       IN [Rec |-> IF st2.abort THEN st2.Rec
                   ELSE SealSet(st2.Rec, "@digest1", EVP_Digest(mdf, st2.stream)),
           stream |-> st2.stream, segs |-> st2.segs]

SealDigest(Rec, mem, MmapPre, junk) == Call("SealDigestRun", <<Rec, mem, MmapPre, junk>>).Rec

(***************************************************************************)
(* Keys and signatures.  EVP_PKEY_sign / EVP_PKEY_verify are an ideal      *)
(* signature scheme: the table sigs lists every (key, digest) pair signed  *)
(* so far, the raw signature is the index of the pair as KeySize bytes,    *)
(* big-endian, and verification looks the pair up.                         *)
(***************************************************************************)
KeySize == 2

\* n as len bytes, big-endian
RawSig(n, len) ==
  LET F[k \in 0..len] == IF k = 0 THEN [v |-> n, out |-> << >>]
                         ELSE [v |-> F[k - 1].v \div 256,
                               out |-> <<Chr[(F[k - 1].v % 256) + 1]>> \o F[k - 1].out]
  IN F[len].out

RawSigIndex(bytes) ==
  LET F[k \in 0..Len(bytes)] == IF k = 0 THEN 0 ELSE F[k - 1] * 256 + Ord(bytes[k])
  IN F[Len(bytes)]

\* the table after signing digest with key, and the index of the pair in it
SignTable(sigs, key, digest) ==
  LET e == [key |-> key, digest |-> digest]
  IN IF \E k \in 1..Len(sigs) : sigs[k] = e THEN sigs ELSE Append(sigs, e)

SignIndex(sigs, key, digest) ==
  LET e == [key |-> key, digest |-> digest]
      t == SignTable(sigs, key, digest)
  IN CHOOSE k \in 1..Len(t) : t[k] = e

EVP_PKEY_verify(sigs, key, sigbin, digest) ==
  LET k == RawSigIndex(sigbin)
  IN Len(sigbin) > 0 /\ k \in 1..Len(sigs) /\ sigs[k] = [key |-> key, digest |-> digest]

\* the DER encoding of the public half of a key, and its inverse (d2i_PUBKEY)
PubDer(key) == <<"P", "K">> \o key

d2i_PUBKEY(der) ==
  IF Len(der) > 2 /\ SubSeq(der, 1, 2) = <<"P", "K">> THEN SubSeq(der, 3, Len(der)) ELSE << >>

\* a digest value as the bytes a second hash is fed with
DigestBytes(d) == <<"#">> \o d.da \o <<"(">> \o d.data \o <<")">>

(***************************************************************************)
(* Signature formats (declared in seal-parse.hpp)                          *)
(***************************************************************************)
SealGetSF(Sf) ==
  IF StrStr(Sf, Str("HEX")) THEN "HEX_UPPER"
  ELSE IF StrStr(Sf, Str("hex")) THEN "HEX_LOWER"
  ELSE IF StrStr(Sf, Str("base64")) THEN "BASE64"
  ELSE IF StrStr(Sf, Str("bin")) THEN "BIN"
  ELSE "INVALID"

SealEncode(data, Sf) ==
  CASE Sf = "HEX_UPPER" -> Call("SealHexEncode", <<data, TRUE>>)
    [] Sf = "HEX_LOWER" -> Call("SealHexEncode", <<data, FALSE>>)
    [] Sf = "BASE64"    -> Call("SealBase64Encode", <<data>>)
    [] OTHER            -> data

(***************************************************************************)
(* Double digest (sign-digest.cpp)                                         *)
(***************************************************************************)
\* SealDoubleDigest with the id hashed before the date
SealDoubleDigestIdFirst(Rec) ==
  LET UserId  == IF SealSearch(Rec, "id") /\ Rec["id"] # << >> THEN Rec["id"] ELSE << >>
      SigDate == IF SealSearch(Rec, "@sigdate") /\ Rec["@sigdate"] # << >>
                 THEN Rec["@sigdate"] ELSE << >>
  IN
  IF UserId = << >> /\ SigDate = << >> THEN Rec
  ELSE LET Rec1 == SealCopy(Rec, "@digest2", "@digest1")
       IN IF ~SealSearch(Rec1, "@digest2")
            THEN (IF SealSearch(Rec1, "@error") THEN Rec1
                  ELSE SealSet(Rec1, "@error", "Digest not computed"))
          ELSE LET Rec2 == IF SealSearch(Rec1, "da") THEN Rec1
                           ELSE SealSet(Rec1, "da", Str("sha256"))
                   mdf  == SealGetMdfFromString(Rec2)
               IN IF mdf = << >>
                    THEN SealSet(Rec2, "@error", "Unsupported digest algorithm")
                  ELSE SealSet(Rec2, "@digest2",
                         EVP_Digest(mdf,
                           (IF UserId # << >> THEN UserId \o <<":">> ELSE << >>)
                           \o (IF SigDate # << >> THEN SigDate \o <<":">> ELSE << >>)
                           \o DigestBytes(Rec2["@digest2"])))

SealDoubleDigest(Rec) ==
  LET UserId  == IF SealSearch(Rec, "id") /\ Rec["id"] # << >> THEN Rec["id"] ELSE << >>
      SigDate == IF SealSearch(Rec, "@sigdate") /\ Rec["@sigdate"] # << >>
                 THEN Rec["@sigdate"] ELSE << >>
  IN
  IF UserId = << >> /\ SigDate = << >> THEN Rec
  ELSE LET Rec1 == SealCopy(Rec, "@digest2", "@digest1")
       IN IF ~SealSearch(Rec1, "@digest2")
            THEN (IF SealSearch(Rec1, "@error") THEN Rec1
                  ELSE SealSet(Rec1, "@error", "Digest not computed"))
          ELSE LET Rec2 == IF SealSearch(Rec1, "da") THEN Rec1
                           ELSE SealSet(Rec1, "da", Str("sha256"))
                   mdf  == SealGetMdfFromString(Rec2)
               IN IF mdf = << >>
                    THEN SealSet(Rec2, "@error", "Unsupported digest algorithm")
                  ELSE SealSet(Rec2, "@digest2",
                         EVP_Digest(mdf,
                           (IF SigDate # << >> THEN SigDate \o <<":">> ELSE << >>)
                           \o (IF UserId # << >> THEN UserId \o <<":">> ELSE << >>)
                           \o DigestBytes(Rec2["@digest2"])))

(***************************************************************************)
(* Record builder (sign-record.cpp)                                        *)
(***************************************************************************)
RecordFields == <<"seal", "kv", "ka", "da", "sf", "comment", "copyright", "info",
                  "src", "srca", "srcd", "id", "b">>

RECURSIVE RecordAddFields(_, _)
RecordAddFields(Args, f) ==
  IF f > Len(RecordFields) THEN Args
  ELSE LET F == RecordFields[f]
       IN IF ~SealSearch(Args, F) \/ Args[F] = << >> THEN RecordAddFields(Args, f + 1)
          ELSE LET A1 == SealSet(Args, "@copy", SealStrEncode(Args[F]))
                   A2 == SealAddBin(A1, "@record",
                           <<" ">> \o Str(F) \o <<"=", "\"">> \o CText(A1["@copy"]) \o <<"\"">>)
               IN RecordAddFields(A2, f + 1)

\* the placeholder signature: date digits, then "abcdef" repeated
RecordPadding(Args) ==
  LET sf      == Args["sf"]
      IsDate  == Match(sf, 0, Str("date"))
      HasSub  == IsDate /\ isdigit(At(sf, 4))
      subsec  == IF HasSub THEN DigitVal(At(sf, 4)) ELSE 0
      DateLen == IF ~IsDate THEN 0 ELSE 14 + (IF HasSub THEN 1 + subsec ELSE 0) + 1
      A1 == IF IsDate THEN SealAddTextPad(Args, "@record", 14, <<"2">>) ELSE Args
      A2 == IF HasSub
              THEN SealAddTextPad(SealAddBin(A1, "@record", <<".">>), "@record", subsec, <<"3">>)
              ELSE A1
      A3 == IF IsDate THEN SealAddBin(A2, "@record", <<":">>) ELSE A2
      PadLen == SealGetIindex(Args, "@sigsize", 0) - DateLen
  IN IF ~SealSearch(Args, "sf") THEN Fault(Args)        \* strncmp(NULL, ...)
     ELSE IF PadLen < 0 THEN Fault(A3)                  \* size_t wrap, realloc fails
     ELSE SealAddTextPad(A3, "@record", PadLen, Str("abcdef"))

SealRecord(Args) ==
  LET A0 == RecordAddFields(SealSet(Args, "@record", Str("<seal")), 1)
      A1 == SealAddBin(A0, "@record", Str(" d=\""))
      A2 == SealAddField(A1, "@record", A1, "domain")
      A3 == SealAddBin(A2, "@record", <<"\"">>)
      A4 == IF SealSearch(A3, "inline")
              THEN SealAddBin(SealAddField(SealAddBin(A3, "@record", Str(" pk=\"")),
                                           "@record", A3, "@pubder"), "@record", <<"\"">>)
              ELSE A3
      A5 == SealAddBin(A4, "@record", Str(" s=\""))
      A6 == SealSetIindex(A5, "@s", 0, SealGetSize(A5, "@record"))
      A7 == IF SealSearch(A6, "@signatureenc")
              THEN SealAddBin(A6, "@record", A6["@signatureenc"])
              ELSE RecordPadding(A6)
      A8 == SealSetIindex(A7, "@s", 1, SealGetSize(A7, "@record"))
  IN IF Halted(A7) THEN A7 ELSE SealAddBin(A8, "@record", Str("\"/>"))

(***************************************************************************)
(* Local signer (sign-local.cpp).  PrivateKey is the loaded key            *)
(* [alg, name]; now is the clock as YYYYMMDDhhmmss; slack is how many      *)
(* bytes shorter than EVP_PKEY_size the signature comes out (ECDSA).       *)
(***************************************************************************)
\* the fraction digits snprintf leaves in datestr for dateN
DateFraction(fract) ==
  IF fract = 0 THEN << >>
  ELSE <<".">> \o [k \in 1..(IF fract < 6 THEN fract
                             ELSE IF fract < 8 THEN 6 ELSE fract - 1) |-> "0"]

SealSignLocalRun(Args0, PrivateKey, sigs, now, slack) ==
  LET sf      == Args0["sf"]
      IsDate  == Match(sf, 0, Str("date"))
      fract   == IF isdigit(At(sf, 4)) THEN DigitVal(At(sf, 4)) ELSE 0
      datestr == IF IsDate THEN now \o DateFraction(fract) ELSE << >>
      datestrlen == Len(datestr)
      Args1   == IF IsDate THEN SealSet(Args0, "@sigdate", datestr) ELSE Args0
      Args2   == Call("SealDoubleDigest", <<Args1>>)
      keyalg  == Args2["ka"]
      siglen  == KeySize
      sigFormat == SealGetSF(sf)
      enclen  == (CASE sigFormat = "BASE64" -> ((siglen + 2) \div 3) * 4
                    [] sigFormat \in {"HEX_UPPER", "HEX_LOWER"} -> siglen * 2
                    [] OTHER -> siglen)
                 + (IF datestrlen > 0 THEN datestrlen + 1 ELSE 0)
      Args3   == SealSetIindex(Args2, "@sigsize", 0, enclen)
      DigestBin == IF SealSearch(Args3, "@digest2") THEN Args3["@digest2"]
                   ELSE Args3["@digest1"]
      sigs1   == SignTable(sigs, PrivateKey.name, DigestBin)
      Sign    == RawSig(SignIndex(sigs, PrivateKey.name, DigestBin), siglen - slack)
      Args4   == SealSet(Args3, "@signaturebin", Sign)
      enc     == Call("SealEncode", <<Sign, sigFormat>>)
      Args5   == IF datestrlen > 0
                   THEN SealSet(Args4, "@signatureenc", datestr \o <<":">> \o enc)
                   ELSE SealMove(SealSet(Args4, "@enc", enc), "@signatureenc", "@enc")
  IN
  IF ~SealSearch(Args0, "sf") THEN [Args |-> Fault(Args0), sigs |-> sigs]
  ELSE IF SealGetMdfFromString(Args2) = << >>
    THEN [Args |-> Halt(Args2, "exit", 128), sigs |-> sigs]
  ELSE IF ~SealSearch(Args2, "ka") THEN [Args |-> Fault(Args2), sigs |-> sigs]
  ELSE IF keyalg \notin {Str("rsa"), Str("ec")}
    THEN [Args |-> Halt(Args2, "exit", 128), sigs |-> sigs]
  ELSE IF keyalg = Str("rsa") /\ PrivateKey.alg # "rsa"
    THEN [Args |-> Halt(Args2, "exit", 128), sigs |-> sigs]
  ELSE IF sigFormat = "INVALID" THEN [Args |-> Halt(Args2, "exit", 128), sigs |-> sigs]
  ELSE IF ~SealSearch(Args3, "@digest1") THEN [Args |-> Args3, sigs |-> sigs]
  ELSE IF ~SealSearch(Args5, "@signatureenc") THEN [Args |-> Fault(Args5), sigs |-> sigs1]
  ELSE [Args |-> SealAddTextPad(Args5, "@signatureenc",
                                SealGetIindex(Args5, "@sigsize", 0) - Len(Args5["@signatureenc"]),
                                << >>),
        sigs |-> sigs1]

(***************************************************************************)
(* Remote signer (sign-remote.cpp).  reply is what the request brought     *)
(* back: fail for a transport failure, else json holds the fields of the   *)
(* answer (sigsize as a number, signature as text), each possibly absent.  *)
(***************************************************************************)
SealIsURL(Args) ==
  /\ SealSearch(Args, "apiurl")
  /\ (Match(Args["apiurl"], 0, Str("http://")) \/ Match(Args["apiurl"], 0, Str("https://")))

SealSignURL(Args, reply) ==
  IF ~SealIsURL(Args) THEN Halt(Args, "exit", 128)
  ELSE LET A1 == SealDel(SealDel(Args, "@sigsize"), "@signature")
       IN IF reply.fail THEN Halt(A1, "exit", 128)
          ELSE LET json == reply.json
                   A2 == IF SealSearch(json, "double-digest")
                           THEN SealSet(A1, "@digest2", json["double-digest"]) ELSE A1
                   A3 == IF SealSearch(json, "sigsize")
                           THEN SealSetIindex(A2, "@sigsize", 0, json["sigsize"][1]) ELSE A2
               IN IF SealSearch(json, "signature")
                    THEN SealSet(A3, "@signatureenc", json["signature"]) ELSE A3

(***************************************************************************)
(* Key lookup (sign-verify.cpp).  txts is the ANSWER section the resolver  *)
(* brings back for the domain: the TXT strings, in order (none when the    *)
(* query fails); disk maps the names of the files that exist to content.   *)
(***************************************************************************)
\* the file a path names: "./x" and "x" are the same file
FileKey(fname) ==
  IF Match(fname, 0, Str("./")) THEN CStr(SubSeq(fname, 3, Len(fname))) ELSE CStr(fname)

SealGetDNSfile(Rec, disk) ==
  IF ~SealSearch(Rec, "@pubkeyfile") THEN NULLREC
  ELSE IF FileKey(Rec["@pubkeyfile"]) \notin DOMAIN disk THEN NULLREC
  ELSE LET mem == disk[FileKey(Rec["@pubkeyfile"])]
           len == IF \E k \in 1..Len(mem) : ~isspace(mem[k])
                    THEN CHOOSE k \in 1..Len(mem) :
                           ~isspace(mem[k]) /\ \A j \in (k + 1)..Len(mem) : isspace(mem[j])
                    ELSE 0
           R   == Str("<seal ") \o SubSeq(mem, 1, len) \o Str(" />")
           Reply == SealMove(Call("SealParse", <<Len(R), R, 0, NULLREC>>), "@public", "p")
       IN [f \in DOMAIN Rec \cup DOMAIN Reply |->
             IF f \in DOMAIN Reply THEN Reply[f] ELSE Rec[f]]

\* the r= value reduced "to numeric-only" by the in-place copy loop
RECURSIVE RevokeDigits(_, _, _)
RevokeDigits(Value, a, out) ==
  IF a >= Len(Value) THEN out
  ELSE IF ~isdigit(At(Value, a)) \/ a = Len(out) THEN RevokeDigits(Value, a + 1, out)
  ELSE RevokeDigits(Value, a + 1, Append(out, At(Value, a)))

RECURSIVE Base64PadP(_)
Base64PadP(Reply) ==
  IF SealGetSize(Reply, "p") % 4 = 0 THEN Reply
  ELSE Base64PadP(SealSet(Reply, "p", Append(Reply["p"], "=")))

\* the loop over the answers, from answer c on
RECURSIVE DNSAnswers(_, _, _)
DNSAnswers(Rec, txts, c) ==
  IF c > Len(txts) THEN Rec
  ELSE
    LET r      == Str("<seal ") \o txts[c] \o Str(" />")
        Parsed == Call("SealParse", <<Len(r), r, 0, NULLREC>>)
        R1     == Base64PadP(Parsed)
        R2     == IF SealSearch(R1, "kv") THEN R1 ELSE SealSet(R1, "kv", <<"1">>)
        Reply  == IF SealSearch(R2, "uid") THEN R2 ELSE SealSet(R2, "uid", << >>)
        NoKey  == Reply["p"] = << >> \/ CText(Reply["p"]) = Str("revoke")
        Reply2 == IF NoKey THEN SealSet(Reply, "r", <<"0">>) ELSE Reply
        Rec1   == IF NoKey THEN Rec ELSE SealSet(Rec, "@public", CText(Reply["p"]))
    IN IF ~Match(r, 6, Str("seal=")) THEN DNSAnswers(Rec, txts, c + 1)
       ELSE IF Parsed = NULLREC \/ ~SealSearch(Parsed, "p") THEN DNSAnswers(Rec, txts, c + 1)
       ELSE IF SealCmp2(Rec, "seal", Reply, "seal") # 0 \/ SealCmp2(Rec, "kv", Reply, "kv") # 0
               \/ SealCmp2(Rec, "ka", Reply, "ka") # 0 \/ SealCmp2(Rec, "uid", Reply, "uid") # 0
         THEN DNSAnswers(Rec, txts, c + 1)
       ELSE IF SealSearch(Reply2, "r")
         THEN SealSet(Rec1, "@revoke", CText(RevokeDigits(Reply2["r"], 0, << >>)))
       ELSE Rec1

SealGetDNS(Rec0, txts, disk) ==
  LET R1 == IF SealSearch(Rec0, "uid") THEN Rec0 ELSE SealSet(Rec0, "uid", << >>)
      R2 == IF SealSearch(R1, "kv") THEN R1 ELSE SealSet(R1, "kv", <<"1">>)
      R3 == SealAddField(SealAddBin(
              SealAddField(SealAddBin(
                SealAddField(SealAddBin(
                  SealAddField(SealAddBin(SealCopy(R2, "@dnscache", "seal"),
                    "@dnscache", <<":">>), "@dnscache", R2, "d"),
                  "@dnscache", <<":">>), "@dnscache", R2, "kv"),
                "@dnscache", <<":">>), "@dnscache", R2, "ka"),
              "@dnscache", <<":">>), "@dnscache", R2, "uid")
      R4 == SealDel(SealDel(SealDel(SealMove(R3, "@dnscachelast", "@dnscache"),
              "@public"), "@publicbin"), "@revoke")
      File == Call("SealGetDNSfile", <<R4, disk>>)
  IN IF SealCmp(R3, "@dnscache", "@dnscachelast") = 0 THEN R3
     ELSE IF ~SealSearch(R4, "d") \/ CText(R4["d"]) = << >>
       THEN SealSet(R4, "@error", "no domain specified")
     ELSE IF File # NULLREC THEN File
     ELSE Call("DNSAnswers", <<R4, txts, 1>>)

(***************************************************************************)
(* Verifier (sign-verify.cpp)                                              *)
(***************************************************************************)
SealRotateRecords(Rec) ==
  LET R1 == SealCopy(Rec, "@p", "@s")
  IN IF ~SealSearch(R1, "@s") THEN Fault(R1)
     ELSE SealSet(R1, "@s", <<0, 0, SealGetIindex(R1, "@s", 2) + 1>>)

\* the key half of SealValidateDecodeParts
DecodePublic(Rec) ==
  IF ~SealSearch(Rec, "@public") THEN Rec
  ELSE LET d == Call("SealBase64Decode", <<Rec["@public"]>>)
       IN IF ~d.ok THEN Fault(Rec)
          ELSE IF d.Value = << >>
            THEN SealSet(SealSet(Rec, "@publicbin", d.Value),
                         "@error", "signature failed to base64 decode")
          ELSE SealSet(Rec, "@publicbin", d.Value)

SealValidateDecodeParts(Rec0) ==
  IF ~SealSearch(Rec0, "s") THEN SealSet(Rec0, "@error", "signature not found")
  ELSE
    LET HasSf   == SealSearch(Rec0, "sf")
        SigFormat == IF HasSf THEN Rec0["sf"] ELSE << >>
        Sig     == CText(Rec0["s"])
        siglen  == Len(Sig)
        Rec1    == SealDel(Rec0, "@sigdate")
        IsDate  == HasSf /\ Match(SigFormat, 0, Str("date"))
        datelen == IF ~IsDate THEN 0
                   ELSE 14 + (IF isdigit(At(SigFormat, 4))
                                THEN 1 + DigitVal(At(SigFormat, 4)) ELSE 0)
        BadDate == IsDate /\ (siglen <= datelen + 2 \/ At(Sig, datelen) # ":"
                              \/ (datelen > 14 /\ At(Sig, 14) # "."))
        Rec2    == IF IsDate THEN SealSet(Rec1, "@sigdate", SubSeq(Sig, 1, datelen)) ELSE Rec1
        skip    == IF IsDate THEN datelen + 1 ELSE 0
        raw     == SubSeq(Sig, skip + 1, siglen)
        b64     == Call("SealBase64Decode", <<raw>>)
        Rec3    == IF StrStr(SigFormat, Str("HEX")) \/ StrStr(SigFormat, Str("hex"))
                     THEN LET v == Call("SealHexDecode", <<raw>>)
                              R == SealSet(Rec2, "@sigbin", v)
                          IN IF Len(v) < 1
                               THEN SealSet(R, "@error", "hex signature failed to decode")
                               ELSE R
                   ELSE IF StrStr(SigFormat, Str("base64"))
                     THEN (IF ~b64.ok THEN Fault(Rec2)
                           ELSE IF Len(b64.Value) < 1
                             THEN SealSet(SealSet(Rec2, "@sigbin", b64.Value),
                                          "@error", "base64 signature failed to decode")
                           ELSE SealSet(Rec2, "@sigbin", b64.Value))
                   ELSE IF StrStr(SigFormat, Str("bin")) THEN SealSet(Rec2, "@sigbin", raw)
                   ELSE SealSet(SealSet(Rec2, "@sigbin", raw),
                                "@error", "unsupported signature encoding")
    IN IF BadDate
         THEN SealSet(Rec1, "@error", "signature date does not match the specified format")
       ELSE IF ~HasSf THEN Fault(Rec2)                    \* strstr(NULL, ...)
       ELSE IF Halted(Rec3) THEN Rec3
       ELSE DecodePublic(Rec3)

\* the comparison loop of SealValidateRevoke: TRUE when the record is revoked
RECURSIVE RevokeLoop(_, _, _, _)
RevokeLoop(Revoke, SigDate, r, s) ==
  IF At(Revoke, r) = NUL THEN TRUE
  ELSE IF At(SigDate, s) = NUL THEN FALSE
  ELSE IF ~isdigit(At(Revoke, r)) THEN RevokeLoop(Revoke, SigDate, r + 1, s)
  ELSE IF ~isdigit(At(SigDate, s)) THEN TRUE
  ELSE IF Ord(At(Revoke, r)) < Ord(At(SigDate, s)) THEN TRUE
  ELSE IF Ord(At(Revoke, r)) > Ord(At(SigDate, s)) THEN FALSE
  ELSE RevokeLoop(Revoke, SigDate, r + 1, s + 1)

SealValidateRevoke(Rec) ==
  LET HasRevoke == SealSearch(Rec, "r")
      HasDate   == SealSearch(Rec, "@sigdate")
      HasPublic == SealSearch(Rec, "@public")
      IsInvalid ==
        IF HasRevoke /\ HasDate THEN RevokeLoop(CText(Rec["r"]), CText(Rec["@sigdate"]), 0, 0)
        ELSE IF HasRevoke THEN TRUE
        ELSE IF ~HasPublic THEN FALSE
        ELSE IF CText(Rec["@public"]) = << >> THEN TRUE
        ELSE Len(CText(Rec["@public"])) = 6 /\ MatchCase(CText(Rec["@public"]), 0, Str("revoke"))
  IN IF ~SealSearch(Rec, "s") \/ CText(Rec["s"]) = << >>
       THEN SealSet(Rec, "@error", "no signature found")
     ELSE IF IsInvalid THEN SealSet(Rec, "@error", "public key revoked")
     ELSE Rec

\* the key algorithm of an imported key
KeyAlg(name) == IF name # << >> /\ name[1] = "E" THEN "ec" ELSE "rsa"

SealValidateSig(Rec, sigs) ==
  IF ~SealSearch(Rec, "da") THEN Fault(Rec)              \* strcmp(NULL, ...)
  ELSE IF CText(Rec["da"]) \notin DigestAlgs THEN Halt(Rec, "exit", 1)
  ELSE IF ~SealSearch(Rec, "@publicbin") THEN SealSet(Rec, "@error", "no public key found")
  ELSE IF ~SealSearch(Rec, "ka") THEN SealSet(Rec, "@error", "no public key algorithm defined")
  ELSE IF ~SealSearch(Rec, "@sigbin") THEN SealSet(Rec, "@error", "no signature found")
  ELSE IF ~SealSearch(Rec, "@digest") THEN SealSet(Rec, "@error", "no digest found")
  ELSE LET PubKey == d2i_PUBKEY(Rec["@publicbin"])
       IN IF PubKey = << >> THEN SealSet(Rec, "@error", "failed to import public key")
          ELSE IF CText(Rec["ka"]) = Str("rsa") /\ KeyAlg(PubKey) # "rsa"
            THEN Halt(Rec, "exit", 1)
          ELSE IF ~EVP_PKEY_verify(sigs, PubKey, Rec["@sigbin"], Rec["@digest"])
            THEN SealSet(Rec, "@error", "signature mismatch")
          ELSE Rec

\* SealVerify: the store returned and what was printed about the record
\* ("none" when the record is not checked)
SealVerifyRun(Rec0, mem, txts, disk, sigs) ==
  LET signum == SealGetIindex(Rec0, "@s", 2)
      Err(R) == SealSearch(R, "@error") \/ Halted(R)
      R1 == IF Err(Rec0) THEN Rec0 ELSE Call("SealGetDNS", <<Rec0, txts, disk>>)
      R2 == IF Err(R1) THEN R1 ELSE Call("SealValidateDecodeParts", <<R1>>)
      D  == Call("SealDigest", <<R2, mem, NoFile, << >>>>)
      R3 == IF Err(R2) THEN R2 ELSE IF Halted(D) THEN D ELSE Call("SealDoubleDigest", <<D>>)
      R4 == IF Err(R3) THEN R3 ELSE Call("SealValidateRevoke", <<R3>>)
      R5 == IF Err(R4) THEN R4 ELSE Call("SealValidateSig", <<R4, sigs>>)
  IN IF Rec0 = NULLREC THEN [Rec |-> Rec0, verdict |-> "none"]
     ELSE IF signum < 1 THEN [Rec |-> Rec0, verdict |-> "none"]
     ELSE IF ~SealSearch(Rec0, "b") THEN [Rec |-> Fault(Rec0), verdict |-> "none"]
     ELSE [Rec |-> R5,
           verdict |-> IF Halted(R5) THEN "none"
                       ELSE IF SealSearch(R5, "@error") THEN "invalid" ELSE "valid"]

SealVerify(Rec, mem, txts, disk, sigs) == Call("SealVerifyRun", <<Rec, mem, txts, disk, sigs>>).Rec

\* one pass through the while-loop of SealVerifyBlock; Rec = NULLREC when the
\* parser finds nothing and the loop returns
VerifyBlockStep(Args, BlockStart, BlockEnd, mem, txts, disk, sigs) ==
  LET Parsed == Call("SealParse", <<BlockEnd - BlockStart, SubSeq(mem, BlockStart + 1, Len(mem)),
                          BlockStart, Args>>)
      Rec0   == SealCopy2(Parsed, "@pubkeyfile", Args, "@pubkeyfile")
      V      == Call("SealVerifyRun", <<Rec0, mem, txts, disk, sigs>>)
      Rec    == V.Rec
      RecEnd == IF SealGetIindex(Rec, "@RecEnd", 0) <= 0 THEN 1
                ELSE SealGetIindex(Rec, "@RecEnd", 0)
      Args1  == SealCopy2(SealCopy2(SealCopy2(SealCopy2(SealCopy2(SealCopy2(Args,
                  "@p", Rec, "@p"), "@s", Rec, "@s"), "@dnscachelast", Rec, "@dnscachelast"),
                  "@public", Rec, "@public"), "@publicbin", Rec, "@publicbin"),
                  "@sflags", Rec, "@sflags")
  IN IF Parsed = NULLREC
       THEN [Args |-> Args, BlockStart |-> BlockStart, Rec |-> NULLREC, verdict |-> "none"]
     ELSE IF Halted(Rec)
       THEN [Args |-> Halt(Args, Rec["@halt"].how, Rec["@halt"].code),
             BlockStart |-> BlockStart, Rec |-> Rec, verdict |-> "none"]
     ELSE [Args |-> Args1, BlockStart |-> BlockStart + RecEnd, Rec |-> Rec,
           verdict |-> V.verdict]

(***************************************************************************)
(* Output writer (sign-sign.cpp)                                           *)
(***************************************************************************)
SealGetCindex(vfhead, Field, Index) ==
  IF SealSearch(vfhead, Field) /\ Index < Len(vfhead[Field]) THEN vfhead[Field][Index + 1]
  ELSE NUL

\* SealInsert without the update of @s: @s stays relative to @BLOCK
SealInsertBlockRelative(Rec, mem, InsertOffset, disk) ==
  LET fname == IF SealSearch(Rec, "@FilenameOut") THEN FileKey(Rec["@FilenameOut"]) ELSE ""
      head  == IF InsertOffset > Len(mem)
                 THEN mem \o [k \in 1..(InsertOffset - Len(mem)) |-> NUL]
                 ELSE SubSeq(mem, 1, InsertOffset)
      tail  == IF InsertOffset < Len(mem) THEN SubSeq(mem, InsertOffset + 1, Len(mem))
               ELSE << >>
  IN IF fname = "" \/ ~SealSearch(Rec, "@BLOCK") \/ ~SealSearch(Rec, "@s")
       THEN [ok |-> FALSE, Rec |-> Rec, disk |-> disk]
     ELSE [ok |-> TRUE, Rec |-> Rec,
           disk |-> [f \in DOMAIN disk \cup {fname} |->
                       IF f = fname THEN head \o Rec["@BLOCK"] \o tail ELSE disk[f]]]

\* SealInsert: ok is FALSE when it returns NULL; disk is the file system after
SealInsert(Rec, mem, InsertOffset, disk) ==
  LET fname == IF SealSearch(Rec, "@FilenameOut") THEN FileKey(Rec["@FilenameOut"]) ELSE ""
      block == Rec["@BLOCK"]
      head  == IF InsertOffset > Len(mem)
                 THEN mem \o [k \in 1..(InsertOffset - Len(mem)) |-> NUL]
                 ELSE SubSeq(mem, 1, InsertOffset)
      tail  == IF InsertOffset < Len(mem) THEN SubSeq(mem, InsertOffset + 1, Len(mem))
               ELSE << >>
      out   == head \o block \o tail
      disk1 == [f \in DOMAIN disk \cup {fname} |-> IF f = fname THEN out ELSE disk[f]]
      Rec1  == SealSet(Rec, "@s", [Rec["@s"] EXCEPT ![1] = @ + InsertOffset,
                                                    ![2] = @ + InsertOffset])
  IN IF fname = "" \/ ~SealSearch(Rec, "@BLOCK") THEN [ok |-> FALSE, Rec |-> Rec, disk |-> disk]
     ELSE IF SealGetCindex(Rec, "@sflags", 1) = "f"
       THEN [ok |-> FALSE, Rec |-> Rec, disk |-> disk]
     ELSE IF ~SealSearch(Rec, "@s") \/ Len(Rec["@s"]) < 2
       THEN [ok |-> FALSE, Rec |-> Fault(Rec),
             disk |-> [f \in DOMAIN disk \cup {fname} |->
                         IF f = fname THEN head \o block ELSE disk[f]]]
     ELSE [ok |-> TRUE, Rec |-> Rec1, disk |-> disk1]

\* what the signing service answers: it signs as the local signer does, and
\* kind says what reaches the client
RemoteReply(sigparm, ServiceKey, sigs, now, slack, kind) ==
  LET R    == Call("SealSignLocalRun", <<sigparm, ServiceKey, sigs, now, slack>>)
      size == IF SealSearch(R.Args, "@sigsize")
                THEN "sigsize" :> <<SealGetIindex(R.Args, "@sigsize", 0)>> ELSE NULLREC
      sig  == IF SealSearch(R.Args, "@signatureenc") THEN R.Args["@signatureenc"] ELSE << >>
  IN CASE kind = "error" -> [fail |-> TRUE, json |-> NULLREC, sigs |-> sigs]
       [] kind = "none"  -> [fail |-> FALSE, json |-> size, sigs |-> sigs]
       [] kind = "short" /\ sig # << >> ->
            [fail |-> FALSE, json |-> size @@ ("signature" :> SubSeq(sig, 1, Len(sig) - 1)),
             sigs |-> R.sigs]
       [] OTHER -> [fail |-> FALSE,
                    json |-> IF sig = << >> THEN size ELSE size @@ ("signature" :> sig),
                    sigs |-> R.sigs]

\* the signer the mode selects; env = [key, now, slack, kind, stale]
SignerRun(sigparm, sigs, env) ==
  LET Mode == SealGetCindex(sigparm, "@mode", 0)
      reply == Call("RemoteReply", <<sigparm, env.key, sigs, env.now, env.slack, env.kind>>)
  IN IF Mode \in {"M", "S"}
       THEN [Args |-> Call("SealSignURL", <<sigparm, reply>>),
             sigs |-> IF SealIsURL(sigparm) THEN reply.sigs ELSE sigs]
     ELSE IF Mode \in {"m", "s"}
       THEN Call("SealSignLocalRun", <<sigparm, env.key, sigs, env.now, env.slack>>)
     ELSE [Args |-> sigparm, sigs |-> sigs]

\* SealSign on the mapped output file mem
SealSign(Rec, mem, sigs, env) ==
  LET fname   == IF SealSearch(Rec, "@FilenameOut") THEN CStr(Rec["@FilenameOut"]) ELSE ""
      D       == Call("SealDigest", <<Rec, mem, NoFile, << >>>>)
      S       == Call("SignerRun", <<D, sigs, env>>)
      sigparm == S.Args
      HasSig  == SealSearch(sigparm, "@signatureenc")
      sig     == sigparm["@signatureenc"]
      s       == Rec["@s"]
      mem1    == [k \in 1..Len(mem) |->
                    IF k > s[1] /\ k <= s[1] + Len(sig) THEN sig[k - s[1]] ELSE mem[k]]
      \* p[0..2] = s[0..2]; a p[] of two entries keeps its length (the third
      \* store lands in the allocation's padding)
      Rec1    == SealSet(Rec, "@p",
                   [k \in 1..Len(Rec["@p"]) |-> IF k <= 3 THEN s[k] ELSE Rec["@p"][k]])
  IN IF fname = "" THEN [ok |-> FALSE, Rec |-> Rec, mem |-> mem, sigs |-> sigs]
     ELSE IF SealGetCindex(Rec, "@sflags", 1) = "f"
       THEN [ok |-> FALSE, Rec |-> Halt(Rec, "exit", 128), mem |-> mem, sigs |-> sigs]
     ELSE IF Halted(D)
       THEN [ok |-> FALSE, Rec |-> Halt(Rec, D["@halt"].how, D["@halt"].code),
             mem |-> mem, sigs |-> sigs]
     ELSE IF Halted(sigparm)
       THEN [ok |-> FALSE, Rec |-> Halt(Rec, sigparm["@halt"].how, sigparm["@halt"].code),
             mem |-> mem, sigs |-> S.sigs]
     ELSE IF HasSig /\ ~SealSearch(Rec, "@s")
       THEN [ok |-> FALSE, Rec |-> Fault(Rec), mem |-> mem, sigs |-> S.sigs]
     ELSE IF ~HasSig \/ Len(sig) + s[1] # s[2]
       THEN [ok |-> FALSE, Rec |-> Halt(Rec, "exit", 128), mem |-> mem, sigs |-> S.sigs]
     ELSE IF ~SealSearch(Rec, "@p")
       THEN [ok |-> FALSE, Rec |-> Fault(Rec), mem |-> mem1, sigs |-> S.sigs]
     ELSE [ok |-> TRUE, Rec |-> SealIncIindex(Rec1, "@s", 2, 1), mem |-> mem1,
           sigs |-> S.sigs]

(***************************************************************************)
(* Text walker (format-text.cpp)                                           *)
(***************************************************************************)
isprint(c) == Ord(c) >= 32 /\ Ord(c) <= 126

InRange(c, lo, hi) == lo <= Ord(c) /\ Ord(c) <= hi

\* how many bytes the character at offset takes, 0 when it is not UTF-8
UTF8Step(mem, o) ==
  LET c0 == At(mem, o)
      c1 == At(mem, o + 1)
      c2 == At(mem, o + 2)
      c3 == At(mem, o + 3)
  IN IF isspace(c0) \/ isprint(c0) THEN 1
     ELSE IF Ord(c0) = 133 THEN 1
     ELSE IF InRange(c0, 127, 159) THEN 1
     ELSE IF InRange(c0, 194, 223) /\ InRange(c1, 128, 191) THEN 2
     ELSE IF \/ (Ord(c0) = 224 /\ InRange(c1, 160, 191) /\ InRange(c2, 128, 191))
             \/ ((InRange(c0, 225, 236) \/ Ord(c0) = 238 \/ Ord(c0) = 239)
                 /\ InRange(c1, 128, 191) /\ InRange(c2, 128, 191))
             \/ (Ord(c0) = 237 /\ InRange(c1, 128, 159) /\ InRange(c2, 128, 191))
       THEN 3
     ELSE IF \/ (Ord(c0) = 240 /\ InRange(c1, 144, 191) /\ InRange(c2, 128, 191)
                 /\ InRange(c3, 128, 191))
             \/ (InRange(c0, 241, 243) /\ InRange(c1, 128, 191) /\ InRange(c2, 128, 191)
                 /\ InRange(c3, 128, 191))
             \/ (Ord(c0) = 244 /\ InRange(c1, 128, 143) /\ InRange(c2, 128, 191)
                 /\ InRange(c3, 128, 191))
       THEN 4
     ELSE 0

\* n passes through the while-loop from offset: the offset reached, -1 once a
\* byte is not UTF-8
RECURSIVE UTF8Scan(_, _, _)
UTF8Scan(mem, offset, n) ==
  IF offset < 0 \/ ~(offset + 5 < Len(mem) /\ offset < 1000) \/ n = 0 THEN offset
  ELSE IF n = 1
    THEN (IF Call("UTF8Step", <<mem, offset>>) = 0 THEN -1 ELSE offset + Call("UTF8Step", <<mem, offset>>))
  ELSE UTF8Scan(mem, UTF8Scan(mem, offset, n \div 2), n - (n \div 2))

_isUTF8(mem) == Len(mem) >= 8 /\ UTF8Scan(mem, 0, Len(mem)) >= 0

Seal_isText(mem) == _isUTF8(mem)

\* strchr("_:", c) != NULL: the terminating NUL counts as found
NameStart(c) == isalpha(c) \/ c \in {"_", ":", NUL}

NameChar(c) == isalnum(c) \/ c \in {"_", ":", ".", "-", NUL}

\* "Second character: alnum, : . -" -- the scan over the tag name
RECURSIVE TagName(_, _, _)
TagName(mem, i, IsXML) ==
  IF ~(IsXML /\ i < Len(mem)) THEN [i |-> i, IsXML |-> IsXML]
  ELSE IF isspace(At(mem, i)) \/ At(mem, i) = ">" THEN [i |-> i, IsXML |-> IsXML]
  ELSE IF i + 1 < Len(mem) /\ Match(mem, i, Str("/>")) THEN [i |-> i + 1, IsXML |-> IsXML]
  ELSE TagName(mem, i + 1, IsXML /\ NameChar(At(mem, i)))

\* "Find end of tag"
RECURSIVE TagEnd(_, _, _)
TagEnd(mem, i, IsXML) ==
  IF ~(IsXML /\ i < Len(mem)) THEN [i |-> i, IsXML |-> IsXML]
  ELSE IF At(mem, i) = ">" THEN [i |-> i + 1, IsXML |-> IsXML]
  ELSE TagEnd(mem, i + 1, IsXML /\ At(mem, i) # "<")

\* the loop "Scan XML and see if it really looks like XML"
RECURSIVE XmlScan(_, _, _, _, _)
XmlScan(mem, InsertOffset, i, IsXML, IsRoot) ==
  IF ~(IsXML /\ IsRoot = 0 /\ i + 5 < InsertOffset) THEN [IsXML |-> IsXML, IsRoot |-> IsRoot]
  ELSE IF isspace(At(mem, i)) THEN XmlScan(mem, InsertOffset, i + 1, IsXML, IsRoot)
  ELSE
    LET Decl  == Match(mem, i, Str("<?")) \/ Match(mem, i, Str("<!"))
        Open  == ~Decl /\ At(mem, i) = "<"
        Root1 == IF Open /\ NameStart(At(mem, i + 1)) THEN i ELSE IsRoot
        i1    == IF Decl THEN i + 2 ELSE IF Open THEN i + 1 ELSE i
        n     == TagName(mem, i1 + 1, TRUE)
        e     == IF n.IsXML /\ isspace(At(mem, n.i)) THEN TagEnd(mem, n.i, TRUE) ELSE n
    IN IF ~Decl /\ ~Open THEN [IsXML |-> FALSE, IsRoot |-> IsRoot]
       ELSE IF ~isalpha(At(mem, i1)) /\ At(mem, i1) \notin {"_", ":", NUL}
         THEN [IsXML |-> FALSE, IsRoot |-> Root1]
       ELSE XmlScan(mem, InsertOffset, e.i, e.IsXML, Root1)

\* "Find type of newline": NUL when the file has no whitespace
RECURSIVE NewlineType(_, _, _)
NewlineType(mem, i, CRLF) ==
  IF i >= Len(mem) THEN CRLF
  ELSE IF At(mem, i) = "\n" THEN (IF i > 0 /\ At(mem, i - 1) = "\r" THEN "\r" ELSE "\n")
  ELSE NewlineType(mem, i + 1, IF CRLF = NUL /\ isspace(At(mem, i)) THEN At(mem, i) ELSE CRLF)

RECURSIVE SkipSpace(_, _)
SkipSpace(mem, i) == IF i < Len(mem) /\ isspace(At(mem, i)) THEN SkipSpace(mem, i + 1) ELSE i

\* what a walker's signing step leaves behind, besides the store:
\*   disk, sigs  the file system and the signatures made, after the step
\*   placed      the output file as SealInsert wrote it (<< >> when it wrote none)
NoInsert(Args, disk, sigs) == [Args |-> Args, disk |-> disk, sigs |-> sigs, placed |-> << >>]

\* SealInsert followed by SealSign, as every walker ends
InsertAndSign(Args, mem, InsertOffset, disk, sigs, env) ==
  LET I     == Call("SealInsert", <<Args, mem, InsertOffset, disk>>)
      fname == FileKey(Args["@FilenameOut"])
      S     == Call("SealSign", <<I.Rec, I.disk[fname], sigs, env>>)
  IN IF ~I.ok THEN [Args |-> I.Rec, disk |-> I.disk, sigs |-> sigs, placed |-> << >>]
     ELSE [Args |-> S.Rec, disk |-> [I.disk EXCEPT ![fname] = S.mem], sigs |-> S.sigs,
           placed |-> I.disk[fname]]

Seal_Textsign(Args0, mem, disk, sigs, env) ==
  LET memsize == Len(mem)
      i0      == SkipSpace(mem, 0)
      X       == Call("XmlScan", <<mem, memsize, i0, At(mem, i0) = "<", 0>>)
      IsXML   == X.IsXML
      CRLF    == NewlineType(mem, 0, NUL)
      A1      == SealDel(Args0, "b")
      A2      == SealAddBin(SealSet(A1, "b",
                    IF \E k \in 1..Len(CText(A1["@sflags"])) : A1["@sflags"][k] = "F"
                      THEN <<"P">> ELSE <<"F">>), "b", Str("~S"))
      Append0 == SealSearch(A2, "options") /\ StrStr(CText(A2["options"]), Str("append"))
      InsertOffset == IF Append0 THEN memsize
                      ELSE IF IsXML /\ X.IsRoot # 0 /\ SealGetIindex(Args0, "@s", 2) = 0
                        THEN X.IsRoot
                      ELSE memsize
      A3      == SealAddBin(A2, "b", IF Append0 THEN Str(",s~s+3") ELSE Str(",s~f"))
      A4      == Call("SealRecord", <<A3>>)
      prefix  == IF IsXML THEN << >>
                 ELSE CASE CRLF = "\r" -> <<"\r", "\n">>
                        [] CRLF = "\n" -> <<"\n">>
                        [] CRLF = NUL  -> << >>
                        [] OTHER       -> <<CRLF>>
      shift   == Len(prefix) + (IF IsXML THEN 1 ELSE 0)
      A5      == SealIncIindex(SealIncIindex(SealSet(A4, "@BLOCK", prefix),
                                             "@s", 0, shift), "@s", 1, shift)
      rec     == A4["@record"]
      A6      == IF IsXML
                   THEN SealAddBin(SealAddBin(SealAddBin(A5, "@BLOCK", Str("<?")),
                          "@BLOCK", SubSeq(rec, 2, Len(rec) - 2)), "@BLOCK", Str("?>"))
                   ELSE SealAddBin(A5, "@BLOCK", rec)
      A7      == CASE CRLF = "\r" -> SealAddBin(A6, "@BLOCK", <<"\r", "\n">>)
                   [] CRLF = "\n" -> SealAddBin(A6, "@BLOCK", <<"\n">>)
                   [] OTHER       -> A6
  IN IF ~SealSearch(Args0, "@FilenameOut") \/ CText(Args0["@FilenameOut"]) = << >>
       THEN NoInsert(Args0, disk, sigs)
     ELSE IF ~SealSearch(A1, "@sflags") THEN NoInsert(Fault(A1), disk, sigs)  \* strchr(NULL, 'F')
     ELSE IF Halted(A4) THEN NoInsert(A4, disk, sigs)
     ELSE Call("InsertAndSign", <<A7, mem, InsertOffset, disk, sigs, env>>)

\* SealVerifyBlock: the loop, with the list of what was reported per record
RECURSIVE SealVerifyBlockRun(_, _, _, _, _, _, _, _)
SealVerifyBlockRun(Args, BlockStart, BlockEnd, mem, txts, disk, sigs, seen) ==
  IF BlockStart >= BlockEnd THEN [Args |-> Args, seen |-> seen]
  ELSE LET V == Call("VerifyBlockStep", <<Args, BlockStart, BlockEnd, mem, txts, disk, sigs>>)
           e == [s |-> IF SealSearch(V.Rec, "@s") THEN V.Rec["@s"] ELSE << >>,
                 p |-> IF SealSearch(V.Rec, "@p") THEN V.Rec["@p"] ELSE << >>,
                 b |-> IF SealSearch(V.Rec, "b") THEN V.Rec["b"] ELSE << >>,
                 verdict |-> V.verdict,
                 error |-> IF SealSearch(V.Rec, "@error") THEN V.Rec["@error"] ELSE "",
                 sigdate |-> IF SealSearch(V.Rec, "@sigdate") THEN CText(V.Rec["@sigdate"])
                             ELSE << >>,
                 digested |-> SealSearch(V.Rec, "@digest1"),
                 sflags0 |-> IF SealSearch(V.Rec, "@sflags0") THEN V.Rec["@sflags0"] ELSE << >>,
                 sflags1 |-> IF SealSearch(V.Rec, "@sflags1") THEN V.Rec["@sflags1"] ELSE << >>,
                 sflags |-> IF SealSearch(V.Args, "@sflags") THEN V.Args["@sflags"] ELSE << >>,
                 revoke |-> IF SealSearch(V.Rec, "@revoke") THEN CText(V.Rec["@revoke"])
                            ELSE << >>]
       IN IF V.Rec = NULLREC THEN [Args |-> Args, seen |-> seen]
          ELSE IF Halted(V.Args) THEN [Args |-> V.Args, seen |-> Append(seen, e)]
          ELSE SealVerifyBlockRun(V.Args, V.BlockStart, BlockEnd, mem, txts, disk, sigs,
                                  Append(seen, e))

SealVerifyBlock(Args, BlockStart, BlockEnd, mem, txts, disk, sigs) ==
  Call("SealVerifyBlockRun", <<Args, BlockStart, BlockEnd, mem, txts, disk, sigs, << >>>>).Args

\* a walker's result: the signing step's, and what was reported per record
Seal_Text(Args, mem, disk, sigs, txts, env) ==
  LET V == Call("SealVerifyBlockRun", <<Args, 0, Len(mem), mem, txts, disk, sigs, << >>>>)
      T == Call("Seal_Textsign", <<V.Args, mem, disk, sigs, env>>)
  IN IF ~_isUTF8(mem) THEN NoInsert(Args, disk, sigs) @@ [seen |-> << >>]
     ELSE IF Halted(V.Args) THEN NoInsert(V.Args, disk, sigs) @@ [seen |-> V.seen]
     ELSE T @@ [seen |-> V.seen]

(***************************************************************************)
(* PNG walker (format-png.cpp).  A 32-bit word is kept as its two 16-bit   *)
(* halves.                                                                 *)
(***************************************************************************)
RECURSIVE BitXor(_, _)
BitXor(a, b) ==
  IF a = 0 THEN b ELSE IF b = 0 THEN a
  ELSE ((a + b) % 2) + 2 * BitXor(a \div 2, b \div 2)

Xor(a, b) == [hi |-> BitXor(a.hi, b.hi), lo |-> BitXor(a.lo, b.lo)]

Shr(a, n) == [hi |-> a.hi \div (2 ^ n), lo |-> (a.lo \div (2 ^ n)) + (a.hi % (2 ^ n)) * (2 ^ (16 - n))]

\* (u32 >> (24 - 8 * i)) & 0xff as a byte, i = 0..3
WordByte(a, i) ==
  Chr[1 + (CASE i = 0 -> a.hi \div 256 [] i = 1 -> a.hi % 256
             [] i = 2 -> a.lo \div 256 [] OTHER -> a.lo % 256)]

\* 0xedb88320
CrcPoly == [hi |-> 60856, lo |-> 33568]

RECURSIVE CrcShift(_, _)
CrcShift(crc, j) ==
  IF j = 0 THEN crc
  ELSE CrcShift(IF crc.lo % 2 = 1 THEN Xor(CrcPoly, Shr(crc, 1)) ELSE Shr(crc, 1), j - 1)

\* the 256 entries, computed once
RECURSIVE CrcEntries(_, _)
CrcEntries(lo, hi) ==
  IF lo = hi THEN (lo :> CrcShift([hi |-> 0, lo |-> lo], 8))
  ELSE CrcEntries(lo, (lo + hi) \div 2) @@ CrcEntries(((lo + hi) \div 2) + 1, hi)

CrcTable == CrcEntries(0, 255)

_PNG_table(n) == CrcTable[n]

CrcByte(crc, c) == Xor(_PNG_table(BitXor(crc.lo % 256, Ord(c))), Shr(crc, 8))

\* n more bytes of Data taken into st = [crc, i]
RECURSIVE CrcRun(_, _, _)
CrcRun(st, Data, n) ==
  IF st.i >= Len(Data) \/ n = 0 THEN st
  ELSE IF n = 1 THEN [crc |-> CrcByte(st.crc, Data[st.i + 1]), i |-> st.i + 1]
  ELSE CrcRun(CrcRun(st, Data, n \div 2), Data, n - (n \div 2))

_PNGCrc32(Data) ==
  Xor(CrcRun([crc |-> [hi |-> 65535, lo |-> 65535], i |-> 0], Data, Len(Data)).crc,
      [hi |-> 65535, lo |-> 65535])

\* the chunk name the options select, and the size of the chunk's header
RECURSIVE _PNGchunkName(_, _)
_PNGchunkName(Opt, opti) ==
  IF opti + 4 > Len(Opt) THEN [ChunkName |-> Str("seAl"), ChunkHeaderSize |-> 8]
  ELSE IF ~isupper(At(Opt, opti + 2)) THEN _PNGchunkName(Opt, opti + 1)
  ELSE IF MatchCase(Opt, opti, Str("seal"))
    THEN [ChunkName |-> SubSeq(Opt, opti + 1, opti + 4), ChunkHeaderSize |-> 8]
  ELSE IF MatchCase(Opt, opti, Str("text"))
    THEN [ChunkName |-> SubSeq(Opt, opti + 1, opti + 4), ChunkHeaderSize |-> 13]
  ELSE _PNGchunkName(Opt, opti + 1)

\* the record as a chunk: length, name, data, CRC
_PNGchunk(ChunkName, rec) ==
  LET data == (IF MatchCase(ChunkName, 0, Str("text")) THEN Str("seal") \o <<NUL>> ELSE << >>)
              \o rec
      len  == Len(data)
      size == <<Chr[1 + ((len \div 16777216) % 256)], Chr[1 + ((len \div 65536) % 256)],
                Chr[1 + ((len \div 256) % 256)], Chr[1 + (len % 256)]>>
      crc  == _PNGCrc32(ChunkName \o data)
  IN size \o ChunkName \o data
       \o <<WordByte(crc, 0), WordByte(crc, 1), WordByte(crc, 2), WordByte(crc, 3)>>

\* _PNGchunkSign: Mmap is the mapped output file, NoFile for the stub chunk
_PNGchunkSign(Args0, Mmap, Offset, sigs, env) ==
  LET HasOpt == SealSearch(Args0, "options")
      Opt  == IF HasOpt THEN CText(Args0["options"]) ELSE << >>
      T    == Call("_PNGchunkName", <<Opt, 0>>)
      A1   == SealSet(SealDel(Args0, "b"), "b",
                      IF SealGetCindex(Args0, "@sflags", 0) = "F" THEN <<"P">> ELSE <<"F">>)
      A2   == SealAddBin(A1, "b", Str("~S,s~s+3"))
      A3   == IF ~HasOpt \/ ~StrStr(Opt, Str("append"))
                THEN SealAddBin(A2, "b", Str(",s+7~f")) ELSE A2
      A4   == Call("SealRecord", <<A3>>)
      rec  == A4["@record"]
      A5   == SealCopy(A4, "@p", "@s")
      A6   == SealSetIindex(SealSetIindex(A5,
                "@s", 0, SealGetIindex(A5, "@S", 0) + Offset + T.ChunkHeaderSize),
                "@s", 1, SealGetIindex(A5, "@S", 1) + Offset + T.ChunkHeaderSize)
      D    == Call("SealDigest", <<A6, Mmap, NoFile, << >>>>)
      S    == IF SealGetCindex(D, "@mode", 0) \in {"S", "s"} THEN Call("SignerRun", <<D, sigs, env>>)
              ELSE [Args |-> D, sigs |-> sigs]
      sig  == S.Args["@signatureenc"]
      at   == SealGetIindex(S.Args, "@S", 0)
      rec1 == [k \in 1..Len(rec) |->
                 IF k > at /\ k <= at + Len(sig) THEN sig[k - at] ELSE rec[k]]
      Chunk(A, r) == SealSet(SealSet(A, "@record", r), "@PNGchunk", Call("_PNGchunk", <<T.ChunkName, r>>))
  IN IF Halted(A4) THEN [Args |-> A4, sigs |-> sigs]
     ELSE IF Mmap = NoFile THEN [Args |-> Chunk(A4, rec), sigs |-> sigs]
     ELSE IF Halted(D) THEN [Args |-> D, sigs |-> sigs]
     ELSE IF Halted(S.Args) THEN S
     ELSE IF ~SealSearch(S.Args, "@signatureenc")
       THEN [Args |-> Fault(S.Args), sigs |-> S.sigs]          \* sig->Value with sig NULL
     ELSE IF at + Len(sig) > Len(rec)
       THEN [Args |-> Fault(S.Args), sigs |-> S.sigs]          \* write past the record
     ELSE [Args |-> Chunk(S.Args, rec1), sigs |-> S.sigs]

Seal_isPNG(mem) ==
  Len(mem) >= 20 /\ SubSeq(mem, 1, 8) = <<"x89", "P", "N", "G", "\r", "\n", "x1A", "\n">>

\* Seal_PNGsign.  env.stale: the length read through the pointer to the
\* deleted stub chunk is not the stub chunk's length
Seal_PNGsign(Rec, mem, IEND_offset, disk, sigs, env) ==
  LET fname == FileKey(Rec["@FilenameOut"])
      C1    == Call("_PNGchunkSign", <<Rec, NoFile, IEND_offset, sigs, env>>)
      chunk == C1.Args["@PNGchunk"]
      out   == SubSeq(mem, 1, IEND_offset) \o chunk \o SubSeq(mem, IEND_offset + 1, Len(mem))
      disk1 == [f \in DOMAIN disk \cup {fname} |-> IF f = fname THEN out ELSE disk[f]]
      C2    == Call("_PNGchunkSign", <<C1.Args, out, IEND_offset, sigs, env>>)
      new   == C2.Args["@PNGchunk"]
      Mnew  == [k \in 1..Len(out) |->
                  IF k > IEND_offset /\ k <= IEND_offset + Len(new)
                    THEN new[k - IEND_offset] ELSE out[k]]
      R     == SealRotateRecords(C2.Args)
  IN IF ~SealSearch(Rec, "@FilenameOut") THEN NoInsert(Rec, disk, sigs)
     ELSE IF SealGetCindex(Rec, "@sflags", 1) = "f"
       THEN NoInsert(Halt(Rec, "exit", 1), disk, sigs)
     ELSE IF Halted(C1.Args) THEN NoInsert(C1.Args, disk, sigs)
     ELSE IF Halted(C2.Args)
       THEN [Args |-> C2.Args, disk |-> disk1, sigs |-> C2.sigs, placed |-> out]
     ELSE IF env.stale \/ Len(chunk) # Len(new)
       THEN [Args |-> Halt(C2.Args, "exit", 1), disk |-> disk1, sigs |-> C2.sigs,
             placed |-> out]
     ELSE [Args |-> R, disk |-> [disk1 EXCEPT ![fname] = Mnew], sigs |-> C2.sigs,
           placed |-> out]

\* the big-endian chunk size at Offset; sizes of 2^31 and more are all
\* larger than any file and are kept as the largest of them
ChunkSizeAt(mem, Offset) ==
  IF Ord(At(mem, Offset)) >= 128 THEN 2147483647
  ELSE Ord(At(mem, Offset)) * 16777216 + Ord(At(mem, Offset + 1)) * 65536
       + Ord(At(mem, Offset + 2)) * 256 + Ord(At(mem, Offset + 3))

\* the chunk walk of Seal_PNG: the records it reports and where IEND is
RECURSIVE PNGWalk(_, _, _, _, _, _, _)
PNGWalk(Args, Offset, mem, txts, disk, sigs, seen) ==
  IF Offset + 12 > Len(mem) THEN [Args |-> Args, IEND_offset |-> 0, seen |-> seen]
  ELSE LET ChunkSize == ChunkSizeAt(mem, Offset)
           FourCC    == SubSeq(mem, Offset + 5, Offset + 8)
           V == Call("SealVerifyBlockRun", <<Args, Offset + 8, Offset + 8 + ChunkSize, mem, txts, disk,
                                   sigs, seen>>)
       IN IF FourCC = Str("IEND") THEN [Args |-> Args, IEND_offset |-> Offset, seen |-> seen]
          ELSE IF ChunkSize = 2147483647
            THEN [Args |-> Args, IEND_offset |-> 0, seen |-> seen]
          ELSE IF MatchCase(FourCC, 0, Str("text")) \/ MatchCase(FourCC, 0, Str("itxt"))
                  \/ MatchCase(FourCC, 0, Str("seal"))
            THEN IF Halted(V.Args) THEN [Args |-> V.Args, IEND_offset |-> 0, seen |-> V.seen]
                 ELSE PNGWalk(V.Args, Offset + ChunkSize + 12, mem, txts, disk, sigs, V.seen)
          ELSE PNGWalk(Args, Offset + ChunkSize + 12, mem, txts, disk, sigs, seen)

Seal_PNG(Args, mem, disk, sigs, txts, env) ==
  LET W == Call("PNGWalk", <<Args, 8, mem, txts, disk, sigs, << >>>>)
      S == Call("Seal_PNGsign", <<W.Args, mem, W.IEND_offset, disk, sigs, env>>)
  IN IF ~Seal_isPNG(mem) THEN NoInsert(Args, disk, sigs) @@ [seen |-> << >>]
     ELSE IF Halted(W.Args) THEN NoInsert(W.Args, disk, sigs) @@ [seen |-> W.seen]
     ELSE S @@ [seen |-> W.seen]

(***************************************************************************)
(* Output file name (files.cpp)                                            *)
(***************************************************************************)
\* offset of the last c in t, -1 when there is none
LastIndex(t, c) ==
  IF \E k \in 1..Len(t) : t[k] = c
    THEN (CHOOSE k \in 1..Len(t) : t[k] = c /\ \A j \in (k + 1)..Len(t) : t[j] # c) - 1
    ELSE -1

dirname(Filename) ==
  LET k == LastIndex(Filename, "/")
  IN IF k < 0 THEN <<".">> ELSE IF k = 0 THEN <<"/">> ELSE SubSeq(Filename, 1, k)

basename(Filename) == SubSeq(Filename, LastIndex(Filename, "/") + 2, Len(Filename))

\* the template expanded from offset i on; << "%", "!" >> marks the exit(1) of
\* an unknown code
RECURSIVE ExpandTemplate(_, _, _, _, _)
ExpandTemplate(Template, i, dname, bname, ename) ==
  IF i >= Len(Template) THEN << >>
  ELSE IF At(Template, i) # "%"
    THEN <<At(Template, i)>> \o ExpandTemplate(Template, i + 1, dname, bname, ename)
  ELSE LET c   == At(Template, i + 1)
           sub == CASE c = "b" -> bname [] c = "d" -> dname [] c = "e" -> ename
                    [] c = "%" -> <<"%">> [] OTHER -> <<NUL>>
       IN sub \o ExpandTemplate(Template, i + 2, dname, bname, ename)

\* ok FALSE is the exit(1) on an illegal code; an empty name is the NULL return
MakeFilename(Template, Filename) ==
  LET b     == basename(Filename)
      dot   == LastIndex(b, ".")
      bname == IF dot < 0 THEN b ELSE SubSeq(b, 1, dot)
      ename == IF dot < 0 THEN << >> ELSE SubSeq(b, dot + 1, Len(b))
      out   == ExpandTemplate(Template, 0, dirname(Filename), bname, ename)
  IN [ok |-> \A k \in 1..Len(out) : out[k] # NUL, name |-> out]

(***************************************************************************)
(* Batch driver (sealtool.cpp, seal.cpp)                                   *)
(***************************************************************************)
ispunct(c) == isprint(c) /\ ~isalnum(c) /\ c # " "

\* the text parameters of a store
TextFields(Args) == {f \in DOMAIN Args : f \notin {"@s", "@p", "@sigsize", "@halt"}}

\* "All parameters: Printable and no mixed quotes"
BadValue(v) ==
  \/ \E k \in 1..Len(v) : ~(v[k] \in {"'", "\""} \/ isalnum(v[k]) \/ ispunct(v[k]) \/ v[k] = " ")
  \/ (\E k \in 1..Len(v) : v[k] = "'") /\ (\E k \in 1..Len(v) : v[k] = "\"")

IsPowerOf2From64(n) == n \in {64, 128, 256, 512, 1024, 2048, 4096, 8192, 16384, 32768}

\* keybits as the uint16_t the loop accumulates
U16(v) ==
  LET F[k \in 0..Len(v)] == IF k = 0 THEN 0 ELSE (F[k - 1] * 10 + DigitVal(v[k])) % 65536
  IN F[Len(v)]

SealParmCheck(Args0) ==
  LET Args == SealDel(SealCopy(SealDel(SealCopy(Args0, "da", "digestalg"), "digestalg"),
                               "ka", "keyalg"), "keyalg")
      Numeric(f) == SealSearch(Args, f) => \A k \in 1..Len(Args[f]) : isdigit(Args[f][k])
  IN IF \/ \E f \in TextFields(Args) : BadValue(Args[f])
        \/ ~Numeric("seal") \/ ~Numeric("keybits")
        \/ (SealSearch(Args, "keybits") /\ ~IsPowerOf2From64(U16(Args["keybits"])))
        \/ (SealSearch(Args, "kv") /\ \E k \in 1..Len(Args["kv"]) :
              ~(isalnum(Args["kv"][k]) \/ Args["kv"][k] \in {".", "+", "/", "-"}))
       THEN Halt(Args, "exit", 1)
     ELSE Args

\* the defaults main() starts from
Defaults ==
  [f \in {"seal", "b", "digestalg", "keyalg", "keybits", "keyfile", "outfile", "options",
          "kv", "sf", "domain", "dnsfile", "copyright", "comment", "info", "id", "apiurl",
          "apikey", "@sflags", "@sflags0", "@sflags1"} |->
     CASE f = "seal" -> Str("1")
       [] f = "b" -> Str("F~S,s~f")
       [] f = "digestalg" -> Str("sha256")
       [] f = "keyalg" -> Str("rsa")
       [] f = "keybits" -> Str("2048")
       [] f = "keyfile" -> Str("./seal-private.pem")
       [] f = "outfile" -> Str("./%b-seal%e")
       [] f = "kv" -> Str("1")
       [] f = "sf" -> Str("HEX")
       [] f = "domain" -> Str("localhost.localdomain")
       [] f \in {"@sflags", "@sflags0", "@sflags1"} -> <<" ">>
       [] OTHER -> << >>]
    @@ ("@s" :> <<0, 0, 0>>) @@ ("@p" :> <<0, 0>>)

NoKey == [alg |-> "none", name |-> << >>]

\* main() up to the file loop: opts are the command-line settings, key the
\* private key the keyfile holds (NoKey when it cannot be read), kind what the
\* signing service does with the dry run
MainStart(Mode, opts, key, nfiles, now, kind) ==
  LET Args0 == Call("SealParmCheck", <<opts @@ Defaults>>)
      IsURL   == SealIsURL(Args0)
      IsLocal == key # NoKey
      reply   == Call("RemoteReply", <<Args0, key, << >>, now, 0, kind>>)
      Args1 == IF IsURL /\ Mode \in {"S", "M"} THEN Call("SealSignURL", <<Args0, reply>>)
               ELSE IF IsLocal /\ Mode \in {"s", "m"}
                 THEN Call("SealSignLocalRun", <<Args0, key, << >>, now, 0>>).Args
               ELSE Args0
      Args2 == IF Mode \in {"s", "S", "m", "M"} THEN SealSet(Args1, "@mode", <<Mode>>)
               ELSE SealSet(Args1, "Mode", Str("verify"))
  IN IF Halted(Args0) THEN Args0
     ELSE IF Halted(Args1) THEN Args1
     ELSE IF Mode \in {"s", "S", "m", "M"} /\ SealGetIindex(Args1, "@sigsize", 0) = 0
       THEN Halt(Args1, "exit", 128)
     ELSE IF nfiles = 0 THEN Halt(Args2, "exit", 128)
     ELSE Args2

\* the format main() finds among those the model holds files of: "P" PNG,
\* "x" text, "@" unknown
FileFormat(mem) ==
  IF Seal_isPNG(mem) THEN "P" ELSE IF Call("Seal_isText", <<mem>>) THEN "x" ELSE "@"

\* one pass through the file loop.  bits is what is OR-ed into ReturnCode,
\* out the file written ("" when none is)
MainFile(CleanArgs, Mode, Filename, disk, sigs, txts, env) ==
  LET mem   == disk[FileKey(Filename)]
      Out   == Call("MakeFilename", <<CleanArgs["outfile"], Filename>>)
      Args0 == IF Mode \in {"s", "S"} THEN SealSet(CleanArgs, "@FilenameOut", Out.name)
               ELSE CleanArgs
      W     == IF FileFormat(mem) = "P" THEN Call("Seal_PNG", <<Args0, mem, disk, sigs, txts, env>>)
               ELSE Call("Seal_Text", <<Args0, mem, disk, sigs, txts, env>>)
      Skip(bits) == NoInsert(CleanArgs, disk, sigs) @@ [seen |-> << >>, bits |-> bits]
      Res   == IF FileKey(Filename) \notin DOMAIN disk THEN Skip(0)
               ELSE IF FileFormat(mem) = "@" THEN Skip(2)
               ELSE IF Mode \in {"s", "S"} /\ ~Out.ok
                 THEN NoInsert(Halt(CleanArgs, "exit", 1), disk, sigs)
                      @@ [seen |-> << >>, bits |-> 0]
               ELSE IF Mode \in {"s", "S"} /\ Out.name = << >> THEN Skip(0)
               ELSE W @@ [bits |-> IF ~Halted(W.Args) /\ SealGetIindex(W.Args, "@s", 2) = 0
                                     THEN 2 ELSE 0]
  IN Res @@ [out |-> IF Res.placed = << >> THEN "" ELSE FileKey(Out.name)]

(***************************************************************************)
(* JPEG (format-jpeg.cpp, format-exif.cpp)                                 *)
(***************************************************************************)
readbe16(mem, o) == Ord(At(mem, o)) * 256 + Ord(At(mem, o + 1))

readle16(mem, o) == Ord(At(mem, o)) + Ord(At(mem, o + 1)) * 256

readbe32(mem, o) == readbe16(mem, o) * 65536 + readbe16(mem, o + 2)

readle32(mem, o) == readle16(mem, o) + readle16(mem, o + 2) * 65536

Seal_isJPEG(mem) ==
  LET u16  == readbe16(mem, 4) + 4
      u16b == readbe16(mem, u16 + 2)
  IN /\ Len(mem) >= 20
     /\ readbe16(mem, 0) = 65496 /\ readbe16(mem, 2) >= 65472
     /\ u16 + 4 < Len(mem)
     /\ readbe16(mem, u16) >= 65472
     /\ u16b + 4 < Len(mem)

\* the entries e.. of IFD0, each checked for a SEAL tag or a comment
RECURSIVE ExifEntries(_, _, _, _, _, _, _, _, _, _, _, _)
ExifEntries(Args, mem, ExifStart, ExifSize, Endian, Offset, e, MaxEntries, txts, disk, sigs, seen) ==
  LET at(k)      == ExifStart + Offset + e * 12 + k
      Read16(o)  == IF Endian = 1234 THEN readle16(mem, o) ELSE readbe16(mem, o)
      Read32(o)  == IF Endian = 1234 THEN readle32(mem, o) ELSE readbe32(mem, o)
      Tag        == Read16(at(0))
      Type       == Read16(at(2))
      EntrySize  == Read32(at(4))
      EntryValue == Read32(at(8))
      V == Call("SealVerifyBlockRun", <<Args, ExifStart + EntryValue,
                  ExifStart + EntryValue + EntrySize, mem, txts, disk, sigs, seen>>)
      Next(A, sn) == ExifEntries(A, mem, ExifStart, ExifSize, Endian, Offset, e + 1, MaxEntries,
                                 txts, disk, sigs, sn)
  IN IF e >= MaxEntries \/ Offset + e * 12 + 12 > ExifSize THEN [Args |-> Args, seen |-> seen]
     ELSE IF EntrySize <= 4 \/ EntryValue + EntrySize > ExifSize \/ Type \notin {1, 2, 6, 7}
       THEN Next(Args, seen)
     ELSE IF Tag \notin {52897, 37510, 65534} THEN Next(Args, seen)
     ELSE IF Halted(V.Args) THEN V
     ELSE Next(V.Args, V.seen)

\* Seal_Exif on the bytes ExifStart .. ExifStart+ExifSize of the file
Seal_Exif(Args, mem, ExifStart, ExifSize, txts, disk, sigs, seen) ==
  LET Endian == IF Match(mem, ExifStart, <<"I", "I", "*", NUL>>) THEN 1234
                ELSE IF Match(mem, ExifStart, <<"M", "M", NUL, "*">>) THEN 4321 ELSE 0
      Offset == IF Endian = 1234 THEN readle32(mem, ExifStart + 4)
                ELSE readbe32(mem, ExifStart + 4)
      MaxEntries == IF Endian = 1234 THEN readle16(mem, ExifStart + Offset)
                    ELSE readbe16(mem, ExifStart + Offset)
  IN IF Len(mem) < ExifStart + ExifSize \/ ExifSize < 22 \/ Endian = 0 \/ Offset < 8
        \/ Offset + 14 > ExifSize
       THEN [Args |-> Args, seen |-> seen]
     ELSE ExifEntries(Args, mem, ExifStart, ExifSize, Endian, Offset + 2, 0, MaxEntries,
                      txts, disk, sigs, seen)

\* the labels of APP blocks that are not scanned
KnownLabel ==
  { <<"J", "P", NUL>>, <<"J", "P", "N", NUL>>, Str("HPQ-"), <<"D", "P", "2", NUL>>,
    <<"P", "I", "C", NUL>>, Str("AROT") \o <<NUL>>, Str("JFIF") \o <<NUL>>,
    Str("JFXX") \o <<NUL>>, Str("HPSC") \o <<NUL>>, Str("H3X0") \o <<NUL>>,
    Str("FPXR") \o <<NUL>>, Str("MOTO") \o <<NUL>>, Str("XMTH") \o <<NUL>>,
    Str("Adobe") \o <<NUL>>, Str("Ducky") \o <<NUL>>, Str("AJPEG") \o <<NUL>>,
    Str("SCRNAIL"), Str("MMIMETA"), Str("Ocad$Rev"), Str("Qualcomm"), Str("ssuniqueid"),
    Str("HPQ-Capture"), Str("ICC_PROFILE") \o <<NUL>>, Str("Photoshop 3.0") \o <<NUL>>,
    Str("GenaPhotoStamperd") }

\* the block walk of Seal_JPEG.  sign tells whether the walk goes on to
\* Seal_JPEGsign (it returns before that on a corrupted block)
RECURSIVE JPEGWalk(_, _, _, _, _, _, _, _, _)
JPEGWalk(Args, Offset, BlockType0, PreviousBlockType, mem, txts, disk, sigs, seen) ==
  LET BlockType == readbe16(mem, Offset)
      BlockSize == readbe16(mem, Offset + 2)
      End(A, ffda, sign, sn) ==
        [Args |-> A, FFDAoffset |-> ffda, PreviousBlockType |-> PreviousBlockType,
         sign |-> sign, seen |-> sn]
      Next(A, sn) == JPEGWalk(A, Offset + BlockSize + 2, BlockType, BlockType, mem, txts, disk,
                              sigs, sn)
      V == Call("SealVerifyBlockRun", <<Args, Offset + 2, Offset + 2 + BlockSize, mem, txts, disk,
                  sigs, seen>>)
      X == Call("Seal_Exif", <<Args, mem, Offset + 10, BlockSize - 8, txts, disk, sigs, seen>>)
  IN IF ~(Offset + 4 < Len(mem) /\ BlockType0 # 65497) THEN End(Args, 0, TRUE, seen)
     ELSE IF BlockType < 65472
       THEN JPEGWalk(Args, Offset + 1, BlockType, PreviousBlockType, mem, txts, disk, sigs, seen)
     ELSE IF BlockType = 65498 THEN End(Args, Offset, TRUE, seen)
     ELSE IF BlockSize < 2 \/ Offset + BlockSize > Len(mem) THEN End(Args, 0, FALSE, seen)
     ELSE IF BlockType >= 65504 /\ BlockType <= 65519
       THEN IF BlockType = PreviousBlockType THEN Next(Args, seen)
            ELSE IF BlockSize > 8 /\ Match(mem, Offset + 4, <<"M", "P", "F", NUL>>)
              THEN Next(IF SealSearch(Args, "@jpegmpf") THEN Args
                        ELSE SealSetIindex(SealSetIindex(Args, "@jpegmpf", 0, Offset + 2),
                                           "@jpegmpf", 1, Offset + 2 + BlockSize), seen)
            ELSE IF BlockSize > 8 /\ Match(mem, Offset + 4, Str("Exif") \o <<NUL, NUL>>)
              THEN IF Halted(X.Args) THEN End(X.Args, 0, FALSE, X.seen)
                   ELSE Next(X.Args, X.seen)
            ELSE IF \E Label \in KnownLabel :
                      Len(Label) + 2 < BlockSize /\ Match(mem, Offset + 4, Label)
              THEN Next(Args, seen)
            ELSE IF Halted(V.Args) THEN End(V.Args, 0, FALSE, V.seen)
            ELSE Next(V.Args, V.seen)
     ELSE IF BlockType = 65534
       THEN IF Halted(V.Args) THEN End(V.Args, 0, FALSE, V.seen)
            ELSE Next(V.Args, V.seen)
     ELSE Next(Args, seen)

\* the stub block for a record: marker, size, "SEAL\0", then the record
_JPEGblock(Args0, Tag) ==
  LET Opt == IF SealSearch(Args0, "options") THEN CText(Args0["options"]) ELSE << >>
      A1  == SealDel(Args0, "b")
      A2  == SealAddBin(SealSet(A1, "b",
               IF \E k \in 1..Len(CText(A1["@sflags"])) : A1["@sflags"][k] = "F"
                 THEN <<"P">> ELSE <<"F">>), "b", Str("~S"))
      A3  == SealAddBin(A2, "b",
               IF ~SealSearch(Args0, "options") \/ ~StrStr(Opt, Str("append"))
                 THEN Str(",s~f") ELSE Str(",s~s+3"))
      A4  == Call("SealRecord", <<A3>>)
      rec == A4["@record"]
      i   == Len(rec) + 2 + 5
      head == <<"xFF", Chr[(Tag % 256) + 1], Chr[((i \div 256) % 256) + 1], Chr[(i % 256) + 1]>>
              \o Str("SEAL") \o <<NUL>>
      A5  == SealIncIindex(SealIncIindex(SealSet(A4, "@BLOCK", head),
               "@s", 0, Len(head)), "@s", 1, Len(head))
  IN IF ~SealSearch(A1, "@sflags") THEN Fault(A1)          \* strchr(NULL, 'F')
     ELSE IF Halted(A4) THEN A4
     ELSE IF ~SealSearch(A4, "@record") \/ i > 65534 THEN Halt(A4, "exit", 128)
     ELSE SealAddBin(A5, "@BLOCK", rec)

\* what _SealFileWriteMPF writes for the bytes MPFoffset[0] .. MPFoffset[1]:
\* a region of at most 20 bytes has no room for a directory, so the loop
\* over the directories is not entered and the region is written as it is
_SealFileWriteMPF(mem, MPFoffset) == Bytes(mem, MPFoffset[1], MPFoffset[2])

Seal_JPEGsign(Rec, mem, FFDAoffset, Tag, disk, sigs, env) ==
  LET fname == FileKey(Rec["@FilenameOut"])
      mpf0  == SealGetIindex(Rec, "@jpegmpf", 0)
      mpf1  == SealGetIindex(Rec, "@jpegmpf", 1)
      MPFoffset == <<IF mpf0 > 0 /\ SealGetIindex(Rec, "@s", 2) > 0 THEN 0 ELSE mpf0, mpf1>>
      Opened(bytes) == [f \in DOMAIN disk \cup {fname} |-> IF f = fname THEN bytes ELSE disk[f]]
      B     == Call("_JPEGblock", <<Rec, Tag>>)
      block == B["@BLOCK"]
      upto  == IF MPFoffset[1] = 0 THEN Bytes(mem, 0, FFDAoffset)
               ELSE Bytes(mem, 0, MPFoffset[1]) \o _SealFileWriteMPF(mem, MPFoffset)
                    \o Bytes(mem, MPFoffset[2], FFDAoffset)
      B1    == SealIncIindex(SealIncIindex(B, "@s", 0, Len(upto)), "@s", 1, Len(upto))
      out   == upto \o block \o Bytes(mem, FFDAoffset, Len(mem))
      S     == Call("SealSign", <<B1, out, sigs, env>>)
  IN IF ~SealSearch(Rec, "@FilenameOut") THEN NoInsert(Rec, disk, sigs)
     ELSE IF SealGetCindex(Rec, "@sflags", 1) = "f"
       THEN NoInsert(Halt(Rec, "exit", 128), disk, sigs)
     ELSE IF Halted(B)
       THEN [Args |-> B, disk |-> Opened(<< >>), sigs |-> sigs, placed |-> << >>]
     ELSE IF MPFoffset[1] # 0 /\ FFDAoffset < MPFoffset[2]
       \* the length FFDAoffset - MPFoffset[1] wraps around: the write runs
       \* off the end of the mapped file
       THEN [Args |-> Fault(B), disk |-> Opened(Bytes(mem, 0, MPFoffset[2])), sigs |-> sigs,
             placed |-> << >>]
     ELSE [Args |-> S.Rec, disk |-> Opened(S.mem), sigs |-> S.sigs, placed |-> out]

\* Seal_JPEG: the walk, then the signing step
Seal_JPEG(Args0, mem, disk, sigs, txts, env) ==
  LET W == Call("JPEGWalk", <<SealDel(Args0, "@jpegmpf"), 2, 65496, 0, mem, txts, disk, sigs,
                             << >>>>)
      T == Call("Seal_JPEGsign", <<W.Args, mem, W.FFDAoffset,
                  IF W.PreviousBlockType = 65512 THEN 65513 ELSE 65512, disk, sigs, env>>)
  IN IF ~W.sign THEN NoInsert(W.Args, disk, sigs) @@ [seen |-> W.seen, FFDAoffset |-> 0]
     ELSE T @@ [seen |-> W.seen, FFDAoffset |-> W.FFDAoffset]

(***************************************************************************)
(* Resolver (seal-dns.cpp).  DNSCache is a list, newest entry first; an    *)
(* entry is [Domain, TXT, Rec], and the marker of a failed lookup has      *)
(* neither TXT nor Rec (both NULL).                                        *)
(***************************************************************************)
NoTXT == << >>

Lower(s) == [k \in 1..Len(s) |-> tolower(s[k])]

\* !strcasecmp(a, b)
SameName(a, b) == Lower(a) = Lower(b)

DefaultName == Str("@default")

\* CheckKeyAlgorithm: 0 when the key algorithm is not supported
CheckKeyAlgorithm(keyalg) ==
  IF keyalg = Str("rsa") THEN 1
  ELSE IF keyalg \in {Str("ec"), Str("P-256"), Str("P-384"), Str("prime256v1"),
                      Str("secp384r1")} THEN 2
  ELSE 0

\* the binary copies of p and pkd an entry carries
DecodeKeys(Rec) ==
  LET Bin(R, to, from) ==
        IF ~SealSearch(R, from) THEN R
        ELSE LET D == Call("SealBase64Decode", <<R[from]>>)
             IN IF D.ok THEN SealSet(R, to, D.Value) ELSE Fault(R)
  IN Bin(Bin(Rec, "@p-bin", "p"), "@pkd-bin", "pkd")

\* the loop of _SealDNSnet over the answers, from answer c on: the cache
\* and the number of entries inserted
RECURSIVE NetAnswers(_, _, _, _, _)
NetAnswers(dname, txts, c, cache, InsertCount) ==
  IF c > Len(txts) THEN [cache |-> cache, InsertCount |-> InsertCount]
  ELSE
    LET r   == Str("<seal ") \o txts[c] \o Str(" />")
        Rec == Call("SealParse", <<Len(r), r, 0, NULLREC>>)
        ka  == IF SealSearch(Rec, "ka") THEN CText(Rec["ka"]) ELSE << >>
    IN IF ~Match(r, 6, Str("seal=")) \/ ~isdigit(At(r, 11))
         THEN NetAnswers(dname, txts, c + 1, cache, InsertCount)
       ELSE IF SealSearch(Rec, "ka") /\ CheckKeyAlgorithm(ka) = 0
         THEN NetAnswers(dname, txts, c + 1, cache, InsertCount)
       ELSE NetAnswers(dname, txts, c + 1,
                       <<[Domain |-> dname, TXT |-> r, Rec |-> Call("DecodeKeys", <<Rec>>)]>> \o cache,
                       InsertCount + 1)

\* _SealDNSnet: reply is what res_nquery and ns_initparse give:
\* [MsgMax |-> "none"] no reply, [MsgMax |-> "bad"] a reply that does not
\* parse, [MsgMax |-> "ok", txts |-> the TXT answers]
_SealDNSnet(dname, reply, cache) ==
  IF dname = << >> THEN [cache |-> cache, InsertCount |-> 0, asked |-> FALSE]
  ELSE IF reply.MsgMax = "ok"
    THEN LET N == Call("NetAnswers", <<dname, reply.txts, 1, cache, 0>>)
         IN [cache |-> N.cache, InsertCount |-> N.InsertCount, asked |-> TRUE]
  ELSE [cache |-> <<[Domain |-> dname, TXT |-> NoTXT, Rec |-> NULLREC]>> \o cache,
        InsertCount |-> 0, asked |-> TRUE]

\* SealDNSLoadFile: the record of a file becomes the "@default" entry
SealDNSLoadFile(mem, cache) ==
  LET r   == Str("<seal ") \o mem \o Str(" />")
      Rec == Call("SealParse", <<Len(r), r, 0, NULLREC>>)
  IN IF mem = NoFile \/ Len(mem) < 10 \/ Len(mem) > 4096 THEN cache
     ELSE IF Rec = NULLREC \/ ~SealSearch(Rec, "seal") THEN cache
     ELSE <<[Domain |-> DefaultName, TXT |-> r, Rec |-> Call("DecodeKeys", <<Rec>>)]>> \o cache

\* index of the first entry from position k on that satisfies P, 0 if none
FirstFrom(cache, k, P(_)) ==
  IF \E i \in k..Len(cache) : P(cache[i])
    THEN CHOOSE i \in k..Len(cache) : P(cache[i]) /\ \A j \in k..(i - 1) : ~P(cache[j])
    ELSE 0

\* the final walk of SealDNSGet from entry k on
RECURSIVE DNSWalk(_, _, _, _)
DNSWalk(cache, k, dnsname, n) ==
  IF k > Len(cache) THEN NULLREC
  ELSE IF cache[k].Rec = NULLREC THEN NULLREC
  ELSE IF ~SameName(cache[k].Domain, dnsname) THEN DNSWalk(cache, k + 1, dnsname, n)
  ELSE IF n > 0 THEN DNSWalk(cache, k + 1, dnsname, n - 1)
  ELSE cache[k].Rec

\* SealDNSGet: Rec is NULLREC when it returns NULL; asked says whether
\* res_nquery was called
SealDNSGet(Args, DNSRecordNumber, cache, reply) ==
  LET dname  == IF SealSearch(Args, "d") THEN CText(Args["d"]) ELSE << >>
      IsD(e)  == SameName(dname, e.Domain)
      IsDef(e) == e.Domain = DefaultName
      d       == FirstFrom(cache, 1, IsD)
      last    == IF d = 0 THEN Len(cache) ELSE d
      Default == IF \E i \in 1..last : IsDef(cache[i])
                   THEN CHOOSE i \in 1..last : IsDef(cache[i])
                                                /\ \A j \in 1..(i - 1) : ~IsDef(cache[j])
                   ELSE 0
      Net     == Call("_SealDNSnet", <<dname, reply, cache>>)
      d2      == FirstFrom(Net.cache, 1, IsD)
      None    == [Rec |-> NULLREC, cache |-> cache, asked |-> FALSE]
  IN IF DNSRecordNumber < 0 \/ ~SealSearch(Args, "d") THEN None
     ELSE IF d # 0 /\ cache[d].TXT = NoTXT THEN None
     ELSE IF SealSearch(Args, "no-net") THEN None
     ELSE IF d = 0 /\ Default = 0
       THEN IF Net.InsertCount = 0
              THEN [Rec |-> NULLREC, cache |-> Net.cache, asked |-> Net.asked]
            ELSE IF Net.cache[d2].Rec = NULLREC
              THEN [Rec |-> NULLREC, cache |-> Net.cache, asked |-> Net.asked]
            ELSE [Rec |-> DNSWalk(Net.cache, d2, Net.cache[d2].Domain, DNSRecordNumber),
                  cache |-> Net.cache, asked |-> Net.asked]
     ELSE IF d = 0
       THEN [Rec |-> DNSWalk(cache, Default, DefaultName, DNSRecordNumber),
             cache |-> cache, asked |-> FALSE]
     ELSE [Rec |-> DNSWalk(cache, d, cache[d].Domain, DNSRecordNumber),
           cache |-> cache, asked |-> FALSE]

\* SealDNSCount: the number of cached TXT records of the domain, or of the
\* default when the domain has none
SealDNSCount(Args, cache, reply) ==
  LET dname == IF SealSearch(Args, "d") THEN CText(Args["d"]) ELSE << >>
      G      == Call("SealDNSGet", <<Args, 0, cache, reply>>)
      count  == Cardinality({k \in 1..Len(G.cache) :
                  G.cache[k].TXT # NoTXT /\ SameName(dname, G.cache[k].Domain)})
      defaultcount == Cardinality({k \in 1..Len(G.cache) :
                  G.cache[k].TXT # NoTXT /\ ~SameName(dname, G.cache[k].Domain)
                  /\ G.cache[k].Domain = DefaultName})
  IN IF ~SealSearch(Args, "d") THEN [count |-> 0, cache |-> cache, asked |-> FALSE]
     ELSE IF G.Rec = NULLREC THEN [count |-> 0, cache |-> G.cache, asked |-> G.asked]
     ELSE [count |-> IF count = 0 THEN defaultcount ELSE count,
           cache |-> G.cache, asked |-> G.asked]

(***************************************************************************)
(* The table of routines                                                   *)
(***************************************************************************)
Call(f, a) ==
  CASE f = "SealParse" -> SealParse(a[1], a[2], a[3], a[4])
    [] f = "SealDigest" -> SealDigest(a[1], a[2], a[3], a[4])
    [] f = "SealRecord" -> SealRecord(a[1])
    [] f = "SealSignLocalRun" -> SealSignLocalRun(a[1], a[2], a[3], a[4], a[5])
    [] f = "SealValidateDecodeParts" -> SealValidateDecodeParts(a[1])
    [] f = "SealGetDNSfile" -> SealGetDNSfile(a[1], a[2])
    [] f = "DNSAnswers" -> DNSAnswers(a[1], a[2], a[3])
    [] f = "SealGetDNS" -> SealGetDNS(a[1], a[2], a[3])
    [] f = "RemoteReply" -> RemoteReply(a[1], a[2], a[3], a[4], a[5], a[6])
    [] f = "SignerRun" -> SignerRun(a[1], a[2], a[3])
    [] f = "SealSign" -> SealSign(a[1], a[2], a[3], a[4])
    [] f = "InsertAndSign" -> InsertAndSign(a[1], a[2], a[3], a[4], a[5], a[6])
    [] f = "Seal_Textsign" -> Seal_Textsign(a[1], a[2], a[3], a[4], a[5])
    [] f = "_PNGchunkSign" -> _PNGchunkSign(a[1], a[2], a[3], a[4], a[5])
    [] f = "Seal_PNGsign" -> Seal_PNGsign(a[1], a[2], a[3], a[4], a[5], a[6])
    [] f = "SealVerifyRun" -> SealVerifyRun(a[1], a[2], a[3], a[4], a[5])
    [] f = "VerifyBlockStep" -> VerifyBlockStep(a[1], a[2], a[3], a[4], a[5], a[6], a[7])
    [] f = "SealVerifyBlockRun" -> SealVerifyBlockRun(a[1], a[2], a[3], a[4], a[5], a[6], a[7], a[8])
    [] f = "PNGWalk" -> PNGWalk(a[1], a[2], a[3], a[4], a[5], a[6], a[7])
    [] f = "Seal_Text" -> Seal_Text(a[1], a[2], a[3], a[4], a[5], a[6])
    [] f = "Seal_PNG" -> Seal_PNG(a[1], a[2], a[3], a[4], a[5], a[6])
    [] f = "Seal_Exif" -> Seal_Exif(a[1], a[2], a[3], a[4], a[5], a[6], a[7], a[8])
    [] f = "JPEGWalk" -> JPEGWalk(a[1], a[2], a[3], a[4], a[5], a[6], a[7], a[8], a[9])
    [] f = "_JPEGblock" -> _JPEGblock(a[1], a[2])
    [] f = "Seal_JPEGsign" -> Seal_JPEGsign(a[1], a[2], a[3], a[4], a[5], a[6], a[7])
    [] f = "Seal_JPEG" -> Seal_JPEG(a[1], a[2], a[3], a[4], a[5], a[6])
    [] f = "MainFile" -> MainFile(a[1], a[2], a[3], a[4], a[5], a[6], a[7])
    [] f = "MainStart" -> MainStart(a[1], a[2], a[3], a[4], a[5], a[6])
    [] f = "Seal_isText" -> Seal_isText(a[1])
    [] f = "SealXmlDecode" -> SealXmlDecode(a[1])
    [] f = "SealEncode" -> SealEncode(a[1], a[2])
    [] f = "_PNGchunk" -> _PNGchunk(a[1], a[2])
    [] f = "SealParmCheck" -> SealParmCheck(a[1])
    [] f = "MakeFilename" -> MakeFilename(a[1], a[2])
    [] f = "SealSignURL" -> SealSignURL(a[1], a[2])
    [] f = "SealInsert" -> SealInsert(a[1], a[2], a[3], a[4])
    [] f = "SealValidateSig" -> SealValidateSig(a[1], a[2])
    [] f = "SealValidateRevoke" -> SealValidateRevoke(a[1])
    [] f = "SealDoubleDigest" -> SealDoubleDigest(a[1])
    [] f = "SealBase64Decode" -> SealBase64Decode(a[1])
    [] f = "SealBase64Encode" -> SealBase64Encode(a[1])
    [] f = "SealHexDecode" -> SealHexDecode(a[1])
    [] f = "SealHexEncode" -> SealHexEncode(a[1], a[2])
    [] f = "ParseStep" -> ParseStep(a[1], a[2], a[3], a[4], a[5])
    [] f = "ParsePass" -> ParsePass(a[1], a[2], a[3], a[4], a[5])
    [] f = "ParsePasses" -> ParsePasses(a[1], a[2], a[3], a[4], a[5], a[6])
    [] f = "UTF8Step" -> UTF8Step(a[1], a[2])
    [] f = "SealXmlDecodeLoop" -> SealXmlDecodeLoop(a[1], a[2], a[3])
    [] f = "XmlScan" -> XmlScan(a[1], a[2], a[3], a[4], a[5])
    [] f = "SealDigestRun" -> SealDigestRun(a[1], a[2], a[3], a[4])
    [] f = "_PNGchunkName" -> _PNGchunkName(a[1], a[2])
    [] f = "DecodeKeys" -> DecodeKeys(a[1])
    [] f = "NetAnswers" -> NetAnswers(a[1], a[2], a[3], a[4], a[5])
    [] f = "_SealDNSnet" -> _SealDNSnet(a[1], a[2], a[3])
    [] f = "SealDNSLoadFile" -> SealDNSLoadFile(a[1], a[2])
    [] f = "SealDNSGet" -> SealDNSGet(a[1], a[2], a[3], a[4])
    [] f = "SealDNSCount" -> SealDNSCount(a[1], a[2], a[3])

(***************************************************************************)
(* State                                                                   *)
(***************************************************************************)
VARIABLES
  dgRec,       \* digest engine: the record whose b= is being evaluated
  dgMem,       \* digest engine: the mapped file
  dgOut,       \* digest engine: result of the last SealDigest call, or NULLREC
  disk,        \* the file system: file name -> content
  sigs,        \* every (key, digest) pair signed so far
  pc,          \* "idle" no process, "loop" main() is in its file loop
  Mode,        \* main(): Mode
  CleanArgs,   \* main(): CleanArgs
  PrivateKey,  \* sign-local.cpp: the loaded private key
  batch,       \* main(): the files argv still holds
  ReturnCode,  \* sealtool.cpp: ReturnCode
  status,      \* how the last process ended: [how, code]
  done,        \* what the running (or last) process did, file by file
  made,        \* the files whose content is a finished signing's output
  runs,        \* processes started so far
  DNSCache,    \* seal-dns.cpp: the list DNSCache, newest entry first
  queries      \* the domains res_nquery was called for, in order

dgVars == <<dgRec, dgMem, dgOut>>

dnsVars == <<DNSCache, queries>>

mainVars == <<disk, sigs, pc, Mode, CleanArgs, PrivateKey, batch, ReturnCode, status, done,
             made, runs, DNSCache, queries>>

vars == <<dgRec, dgMem, dgOut, disk, sigs, pc, Mode, CleanArgs, PrivateKey, batch, ReturnCode,
          status, done, made, runs, DNSCache, queries>>

NoStatus == [how |-> "none", code |-> 0]

\* no process runs in the specification of the digest engine
MainOff ==
  /\ disk = NULLREC /\ sigs = << >> /\ pc = "off" /\ Mode = "v" /\ CleanArgs = NULLREC
  /\ PrivateKey = NoKey /\ batch = << >> /\ ReturnCode = 0 /\ status = NoStatus
  /\ done = << >> /\ made = {} /\ runs = 0
  /\ DNSCache = << >> /\ queries = << >>

(***************************************************************************)
(* Specification of the digest engine: a b= expression is typed one        *)
(* character at a time and SealDigest is applied to it.                    *)
(***************************************************************************)
BChars == {"F","f","S","s","p","+","-","~",",","1","9"}

DigestFiles == {<<"a","b","c","d","e","f">>}

DigestSig == {<<2, 4, 1>>}

DigestPrev == {<<0, 1, 0>>}

\* what may follow SealAddC's parameter on the stack
StackJunk == {<< >>, <<"?">>}

InitDigest ==
  /\ dgMem \in DigestFiles
  /\ \E s \in DigestSig, p \in DigestPrev :
       dgRec = [b |-> << >>, da |-> <<"s","h","a","2","5","6">>] @@ ("@s" :> s) @@ ("@p" :> p)
  /\ dgOut = NULLREC
  /\ MainOff

DigestType(c) ==
  /\ Len(dgRec["b"]) < MaxB
  /\ dgRec' = SealSet(dgRec, "b", Append(dgRec["b"], c))
  /\ dgOut' = NULLREC
  /\ UNCHANGED dgMem
  /\ UNCHANGED mainVars

DigestEval ==
  /\ dgOut = NULLREC
  /\ \E junk \in StackJunk : dgOut' = Call("SealDigestRun", <<dgRec, dgMem, NoFile, junk>>)
  /\ UNCHANGED <<dgRec, dgMem>>
  /\ UNCHANGED mainVars

NextDigest ==
  \/ \E c \in BChars : DigestType(c)
  \/ DigestEval

SpecDigest == InitDigest /\ [][NextDigest]_vars

(***************************************************************************)
(* Claims about the digest engine                                          *)
(***************************************************************************)
InBounds(seg, memsize) == 0 <= seg[1] /\ seg[1] <= seg[2] /\ seg[2] <= memsize

RECURSIVE ConcatSegs(_, _, _)
ConcatSegs(mem, segs, i) ==
  IF i > Len(segs) THEN << >>
  ELSE Bytes(mem, segs[i][1], segs[i][2]) \o ConcatSegs(mem, segs, i + 1)

\* C3: SealDigest produces @digest1 only if every segment of b= lies within
\* 0 <= lhs <= rhs <= file length; a segment outside that bound, wherever it
\* appears and whether or not it is empty, sets @error and yields no @digest1.
C3_OutOfRangeIsError ==
  (dgOut # NULLREC /\ \E i \in 1..Len(dgOut.segs) : ~InBounds(dgOut.segs[i], Len(dgMem)))
    => (SealSearch(dgOut.Rec, "@error") /\ ~SealSearch(dgOut.Rec, "@digest1"))

\* C4: for every b= that SealDigest accepts without @error, the byte stream
\* fed to the hash (no preface file) is the concatenation of file[lhs_i, rhs_i)
\* over all segments of the expression, in the order written.
C4_StreamIsSegments ==
  (dgOut # NULLREC /\ ~SealSearch(dgOut.Rec, "@error"))
    => dgOut.stream = ConcatSegs(dgMem, dgOut.segs, 1)

(***************************************************************************)
(* Specification of the tool: sealtool is run up to MaxRuns times on the   *)
(* files of a directory.  Each run takes a command line; each pass through *)
(* main()'s file loop is one step.                                         *)
(***************************************************************************)
MaxRuns == 2

RSAKey == [alg |-> "rsa", name |-> <<"R", "1">>]

ECKey == [alg |-> "ec", name |-> <<"E", "1">>]

Now == Str("20240101000000")

Domain == Str("a.b")

\* the TXT records of the signer's domain
Zone == <<Str("seal=1 ka=rsa p=") \o SealBase64Encode(PubDer(RSAKey.name)),
          Str("seal=1 ka=ec p=") \o SealBase64Encode(PubDer(ECKey.name))>>

\* a text with two signed records and a mention of the element between them
Mention ==
  Str("<seal seal=1 b=F~S,s~f da=sha256 ka=rsa sf=hex d=a.b s=ab12/>\n")
  \o Str("the <seal seal=1> element\n")
  \o Str("<seal seal=1 b=F~S,s~f da=sha256 ka=rsa sf=hex d=a.b s=cd34/>\n")

PNGMagic == <<"x89", "P", "N", "G", "\r", "\n", "x1A", "\n">>

IEND == <<NUL, NUL, NUL, NUL, "I", "E", "N", "D", "xAE", "B", "x60", "x82">>

Disk0 ==
  [f \in {"a.txt", "c.txt", "t.txt", "x.xml", "u.bin", "m.txt", "p.png", "q.png"} |->
     CASE f = "a.txt" -> Str("some text\n")
       [] f = "p.png" -> PNGMagic \o IEND
       [] f = "q.png" -> PNGMagic
                         \o _PNGchunk(Str("seAl"),
                               Str("<seal seal=1 b=F~S,s~s+3,s+7~f da=sha256 ka=rsa sf=hex d=a.b s=\"abcd\"/>"))
                         \o IEND
       [] f = "c.txt" -> Str("some text\r\n")
       [] f = "t.txt" -> Str("some\ttext")
       [] f = "x.xml" -> Str("<?xml v='1'?>\n<r>data</r>\n")
       [] f = "u.bin" -> <<"xFF", "xFE", "x00", "x01", "xFF", "xFE", "x00", "x01", "x02">>
       [] f = "m.txt" -> Mention]

\* the command lines: mode, options set, and the key the keyfile holds
Invocations ==
  << [Mode |-> "v", key |-> NoKey, opts |-> NULLREC],
    [Mode |-> "s", key |-> RSAKey, opts |-> [domain |-> Domain]],
    [Mode |-> "s", key |-> NoKey, opts |-> [domain |-> Domain]],
    [Mode |-> "s", key |-> ECKey,
     opts |-> [domain |-> Domain, keyalg |-> Str("ec"), sf |-> Str("date3:base64"),
               options |-> Str("append")]],
    [Mode |-> "S", key |-> RSAKey,
     opts |-> [domain |-> Domain, apiurl |-> Str("https://s"), sf |-> Str("hex")]] >>

Batches ==
  { << >>, <<Str("a.txt")>>, <<Str("c.txt")>>, <<Str("t.txt")>>, <<Str("x.xml")>>,
    <<Str("m.txt")>>, <<Str("u.bin"), Str("a.txt")>>, <<Str("a-seal.txt"), Str("u.bin")>>,
    <<Str("./x-seal.xml")>>, <<Str("a-seal.txt")>>, <<Str("p.png")>>, <<Str("q.png")>>,
    <<Str("p-seal.png")>> }

\* what the signing service may do with a request
ReplyKinds == {"ok", "short", "none", "error"}

\* bitwise OR of two exit codes
RECURSIVE BitOr(_, _)
BitOr(a, b) ==
  IF a = 0 THEN b ELSE IF b = 0 THEN a
  ELSE (IF a % 2 = 1 \/ b % 2 = 1 THEN 1 ELSE 0) + 2 * BitOr(a \div 2, b \div 2)

InitMain ==
  /\ dgRec = NULLREC /\ dgMem = << >> /\ dgOut = NULLREC
  /\ disk = Disk0 /\ sigs = << >> /\ pc = "idle" /\ Mode = "v" /\ CleanArgs = NULLREC
  /\ PrivateKey = NoKey /\ batch = << >> /\ ReturnCode = 0 /\ status = NoStatus
  /\ done = << >> /\ made = {} /\ runs = 0
  /\ DNSCache = << >> /\ queries = << >>

\* a process starts: main() up to the file loop
Start(inv, files, kind) ==
  /\ pc = "idle"
  /\ runs < MaxRuns
  /\ inv.Mode = "S" \/ kind = "ok"
  /\ \E Args \in {Call("MainStart", <<inv.Mode, inv.opts, inv.key, Len(files), Now, kind>>)} :
        /\ runs' = runs + 1
        /\ Mode' = inv.Mode
        /\ PrivateKey' = inv.key
        /\ CleanArgs' = Args
        /\ ReturnCode' = 0
        /\ done' = << >>
        /\ IF Halted(Args)
             THEN pc' = "idle" /\ status' = Args["@halt"] /\ batch' = << >>
             ELSE pc' = "loop" /\ status' = NoStatus /\ batch' = files
  /\ UNCHANGED <<disk, sigs, made>>
  /\ UNCHANGED dgVars
  /\ UNCHANGED dnsVars

\* one pass through the file loop
File(txts, slack, kind, stale) ==
  /\ pc = "loop"
  /\ batch # << >>
  /\ Mode = "S" \/ kind = "ok"
  /\ PrivateKey.alg = "ec" \/ slack = 0
  /\ Mode = "v" \/ txts = Zone
  /\ stale => /\ Mode \in {"s", "S"}
              /\ FileKey(Head(batch)) \in DOMAIN disk
              /\ Seal_isPNG(disk[FileKey(Head(batch))])
  /\ \E R \in {Call("MainFile", <<CleanArgs, Mode, Head(batch), disk, sigs, txts,
                        [key |-> PrivateKey, now |-> Now, slack |-> slack, kind |-> kind,
                         stale |-> stale]>>)} :
        /\ disk' = R.disk
        /\ sigs' = R.sigs
        /\ done' = Append(done, [name |-> Head(batch), seen |-> R.seen, placed |-> R.placed,
                                 Args |-> R.Args, out |-> R.out, kind |-> kind,
                                 dns |-> txts # << >>, txts |-> txts,
                                 found |-> FileKey(Head(batch)) \in DOMAIN disk])
        /\ made' = IF R.out = "" THEN made
                   ELSE IF Halted(R.Args) THEN made \ {R.out} ELSE made \cup {R.out}
        /\ IF Halted(R.Args)
             THEN pc' = "idle" /\ status' = R.Args["@halt"] /\ batch' = << >>
                  /\ UNCHANGED ReturnCode
             ELSE /\ ReturnCode' = BitOr(ReturnCode, R.bits)
                  /\ batch' = Tail(batch)
                  /\ UNCHANGED <<pc, status>>
  /\ UNCHANGED <<Mode, CleanArgs, PrivateKey, runs>>
  /\ UNCHANGED dgVars
  /\ UNCHANGED dnsVars

\* main() returns
Return ==
  /\ pc = "loop"
  /\ batch = << >>
  /\ pc' = "idle"
  /\ status' = [how |-> "return", code |-> ReturnCode]
  /\ UNCHANGED <<disk, sigs, Mode, CleanArgs, PrivateKey, batch, ReturnCode, done, made, runs>>
  /\ UNCHANGED dgVars
  /\ UNCHANGED dnsVars

NextMain ==
  \/ \E n \in 1..Len(Invocations), files \in Batches, kind \in ReplyKinds :
       Start(Invocations[n], files, kind)
  \/ \E txts \in {<< >>, Zone}, slack \in {0, 1}, kind \in ReplyKinds, stale \in BOOLEAN :
       File(txts, slack, kind, stale)
  \/ Return

SpecMain == InitMain /\ [][NextMain]_vars

(***************************************************************************)
(* Properties of the tool.  Last is what the latest pass through the file  *)
(* loop did; the file it wrote, if any, is disk[Last.out].                 *)
(***************************************************************************)
Last == done[Len(done)]

Signing == Mode \in {"s", "S"}

\* the latest pass wrote an output file and the process went on
Completed == done # << >> /\ Signing /\ Last.out # "" /\ ~Halted(Last.Args)

\* the records of seen that carry a signature, in the order reported
RECURSIVE Signed(_)
Signed(seen) ==
  IF seen = << >> THEN << >>
  ELSE (IF Head(seen).s # << >> THEN <<Head(seen)>> ELSE << >>) \o Signed(Tail(seen))

\* the text between s=" and the closing quote of a record
SigValue(rec) ==
  LET k == CHOOSE k \in 0..Len(rec) : Match(rec, k, Str(" s=\""))
      e == CHOOSE j \in (k + 4)..Len(rec) :
             At(rec, j) = "\"" /\ \A i \in (k + 4)..(j - 1) : At(rec, i) # "\""
  IN Bytes(rec, k + 4, e)

Bit(code, b) == (code \div b) % 2 = 1

\* C1: a file that a completed signing run (mode s or S) wrote and nothing
\* changed since, verified with the signer's TXT records at hand, has at
\* least one record and every record is reported valid.
C1_SignedVerifiesValid ==
  (Mode = "v" /\ done # << >> /\ FileKey(Last.name) \in made /\ Last.dns)
    => /\ ~Halted(Last.Args)
       /\ Last.seen # << >>
       /\ \A k \in 1..Len(Last.seen) : Last.seen[k].verdict = "valid"

\* C2: after a completed signing the output has the length it had with the
\* placeholder, the signature region @s[0]..@s[1] the signer used is as long
\* as the encoded signature, and no byte before the region has changed.
C2_FinalRecordSameSize ==
  Completed =>
    LET final  == disk[Last.out]
        placed == Last.placed
        s      == Last.Args["@p"]
    IN /\ Len(final) = Len(placed)
       /\ Len(s) >= 2
       /\ s[2] - s[1] = SealGetIindex(Last.Args, "@sigsize", 0)
       /\ \A k \in 1..Len(placed) : k <= s[1] => final[k] = placed[k]

\* C5: when a walker has built @BLOCK and SealInsert has written the output,
\* the bytes [@s[0], @s[1]) of the output are the placeholder signature of
\* the record, between its quotes, whatever the block prefix and the insert
\* offset.
C5_PlaceholderAtS ==
  (done # << >> /\ Last.placed # << >> /\ SealSearch(Last.Args, "@BLOCK"))
    => LET s == Last.Args["@s"]
       IN /\ Len(s) >= 2
          /\ 0 < s[1] /\ s[1] <= s[2] /\ s[2] < Len(Last.placed)
          /\ Bytes(Last.placed, s[1], s[2]) = SigValue(Last.Args["@record"])
          /\ At(Last.placed, s[1] - 1) = "\""
          /\ At(Last.placed, s[2]) = "\""

\* C5 happens: a record was inserted with source bytes on both sides of it
C5_Witness ==
  /\ done # << >> /\ Last.placed # << >> /\ SealSearch(Last.Args, "@BLOCK")
  /\ Len(Last.Args["@s"]) >= 2
  /\ Len(Last.placed) - Last.Args["@s"][2] > 6
  /\ Len(SigValue(Last.Args["@record"])) > 0

\* C6: the signed records of a file are reported in increasing offset order,
\* the first with @p = (0,0) and every later one with the @s[0],@s[1] of the
\* one before it as its @p[0],@p[1].
C6_PreviousIsLastSeen ==
  done # << >> =>
    LET R == Signed(Last.seen)
    IN \A n \in 1..Len(R) :
         /\ Len(R[n].p) >= 2 /\ Len(R[n].s) >= 2
         /\ IF n = 1 THEN R[n].p[1] = 0 /\ R[n].p[2] = 0
            ELSE /\ R[n].p[1] = R[n - 1].s[1] /\ R[n].p[2] = R[n - 1].s[2]
                 /\ R[n - 1].s[1] < R[n].s[1]

\* C7: the k-th signed record of a file is numbered k, and a signature a
\* completed signing adds is numbered one more than the last one found.
C7_OrdinalCounts ==
  done # << >> =>
    LET R == Signed(Last.seen)
    IN /\ \A k \in 1..Len(R) : Len(R[k].s) >= 3 /\ R[k].s[3] = k
       /\ Completed => SealGetIindex(Last.Args, "@s", 2) = Len(R) + 1

\* C8: when the signing service returns no signature, or one of the wrong
\* length, for a file whose placeholder has been written, the process exits
\* with 0x80 and the output still holds the placeholder.
C8_BadSignatureAborts ==
  (done # << >> /\ Mode = "S" /\ Last.placed # << >> /\ Last.kind \in {"none", "short"})
    => /\ Halted(Last.Args)
       /\ Last.Args["@halt"] = [how |-> "exit", code |-> 128]
       /\ disk[Last.out] = Last.placed

\* C9: signing a file that holds a record whose b= reaches the end of the
\* file (anchor f) exits with 0x80 and writes no new record.
C9_FinalizedRefused ==
  (done # << >> /\ Signing
     /\ \E k \in 1..Len(Last.seen) : \E i \in 1..Len(Last.seen[k].b) : Last.seen[k].b[i] = "f")
    => /\ Halted(Last.Args)
       /\ Last.Args["@halt"] = [how |-> "exit", code |-> 128]
       /\ Last.placed = << >>

\* C10: the exit code of a run that returns from main() has bit 0x01 exactly
\* when some record of some file was reported invalid and bit 0x02 exactly
\* when some file that was read held no signature; while the files are
\* processed the bits gathered so far are never fewer than that.
C10_ExitCodeIsOr ==
  LET Invalid == \E n \in 1..Len(done) : \E k \in 1..Len(done[n].seen) :
                   done[n].seen[k].verdict = "invalid"
      NoSig   == \E n \in 1..Len(done) :
                   done[n].found /\ done[n].out = "" /\ Signed(done[n].seen) = << >>
  IN /\ status.how = "return"
          => /\ Bit(status.code, 1) <=> Invalid
             /\ Bit(status.code, 2) <=> NoSig
     /\ pc = "loop" => /\ Invalid => Bit(ReturnCode, 1)
                       /\ NoSig => Bit(ReturnCode, 2)

\* C19: once the b= of a record has been evaluated, @sflags of the running
\* state is @sflags0 followed by @sflags1 of that record, which is what the
\* finalization gate and the append idiom read afterwards.
C19_SflagsIsConcatenation ==
  \A n \in 1..Len(done) : \A k \in 1..Len(done[n].seen) :
    done[n].seen[k].digested =>
      done[n].seen[k].sflags = done[n].seen[k].sflags0 \o done[n].seen[k].sflags1

\* a record of the pass was evaluated and its range began at the start of the
\* file, and no record of the pass reaches the end of the file
PriorCoversF(pass) ==
  /\ \E k \in 1..Len(pass.seen) :
       /\ pass.seen[k].digested
       /\ pass.seen[k].sflags0 # << >> /\ pass.seen[k].sflags0[1] = "F"
  /\ \A k \in 1..Len(pass.seen) : \A i \in 1..Len(pass.seen[k].b) : pass.seen[k].b[i] # "f"

C26_VerifierHasSignedDigest ==
  \A n \in 1..Len(done) : \A k \in 1..Len(done[n].seen) :
    done[n].seen[k].digested => done[n].seen[k].error # "no digest found"

(***************************************************************************)
(* Specification of revocation: the tool verifies one file that holds one  *)
(* signed record, while the signer's zone holds one TXT record.            *)
(***************************************************************************)
\* the s= of the record in each file: no date, or a date before the signature
SignedAt ==
  [f \in {"n.txt", "d5.txt", "d6.txt", "d7.txt", "d8.txt"} |->
     CASE f = "n.txt"  -> Str("sf=hex d=a.b s=\"ab12\"")
       [] f = "d5.txt" -> Str("sf=date:hex d=a.b s=\"20240501000000:ab12\"")
       [] f = "d6.txt" -> Str("sf=date:hex d=a.b s=\"20240601000000:ab12\"")
       [] f = "d7.txt" -> Str("sf=date:hex d=a.b s=\"20240701000000:ab12\"")
       [] f = "d8.txt" -> Str("sf=date3:hex d=a.b s=\"20240601000000.500:ab12\"")]

RevokeDisk ==
  [f \in DOMAIN SignedAt |->
     Str("<seal seal=1 b=F~S,s~f da=sha256 ka=rsa ") \o SignedAt[f] \o Str("/>\n")]

\* what the TXT record says of the key, and of its revocation
TXTKeys == {"missing", "empty", "revoke", "key"}

TXTRevokes == {<< >>, Str("20240601"), Str("2024-06-01"), Str("20240601000000"), Str("2024")}

TXT(p, r) ==
  Str("seal=1 ka=rsa")
  \o (CASE p = "missing" -> << >>
         [] p = "empty"   -> Str(" p=\"\"")
         [] p = "revoke"  -> Str(" p=revoke")
         [] OTHER         -> Str(" p=") \o SealBase64Encode(PubDer(RSAKey.name)))
  \o (IF r = << >> THEN << >> ELSE Str(" r=") \o r)

InitRevoke ==
  /\ dgRec = NULLREC /\ dgMem = << >> /\ dgOut = NULLREC
  /\ disk = RevokeDisk /\ sigs = << >> /\ pc = "idle" /\ Mode = "v" /\ CleanArgs = NULLREC
  /\ PrivateKey = NoKey /\ batch = << >> /\ ReturnCode = 0 /\ status = NoStatus
  /\ done = << >> /\ made = {} /\ runs = 0
  /\ DNSCache = << >> /\ queries = << >>

NextRevoke ==
  \/ \E f \in DOMAIN RevokeDisk : Start(Invocations[1], <<Str(f)>>, "ok")
  \/ \E p \in TXTKeys, r \in TXTRevokes : File(<<TXT(p, r)>>, 0, "ok", FALSE)
  \/ Return

SpecRevoke == InitRevoke /\ [][NextRevoke]_vars

(***************************************************************************)
(* Properties of revocation                                                *)
(***************************************************************************)
\* the digits of a text, in order
RECURSIVE Digits(_)
Digits(v) ==
  IF v = << >> THEN << >>
  ELSE (IF isdigit(Head(v)) THEN <<Head(v)>> ELSE << >>) \o Digits(Tail(v))

\* a <= b, byte by byte over the common prefix of a and b
LeqOverPrefix(a, b) ==
  LET n == IF Len(a) < Len(b) THEN Len(a) ELSE Len(b)
  IN \/ \A k \in 1..n : a[k] = b[k]
     \/ \E k \in 1..n : (\A j \in 1..(k - 1) : a[j] = b[j]) /\ Ord(a[k]) < Ord(b[k])

Revoked(e) == e.error = "public key revoked"

\* C11: when the TXT record selected for a signature carries r, the record is
\* reported revoked if it has no @sigdate, and otherwise exactly when the
\* digits of r are <= the digits of @sigdate over their common prefix.
C11_RevokedByDate ==
  \A r \in TXTRevokes \ {<< >>} :
    (done # << >> /\ Last.txts = <<TXT("key", r)>> /\ Last.seen # << >>) =>
      LET e == Last.seen[1]
      IN Revoked(e) <=> (e.sigdate = << >> \/ LeqOverPrefix(Digits(r), Digits(e.sigdate)))

\* C28: the r of the selected TXT record is kept as its digits, all of them
\* and in their order (2024-06-01 and 20240601 both give 20240601); this is
\* the value held for the comparison with @sigdate.
C28_RevokeKeepsDigits ==
  \A r \in TXTRevokes \ {<< >>} :
    (done # << >> /\ Last.txts = <<TXT("key", r)>> /\ Last.seen # << >>) =>
      Last.seen[1].revoke = Digits(r)

\* C12: a signature whose matching TXT record has p missing, empty or equal
\* to the literal revoke is reported revoked, and is never reported valid.
C12_NoKeyIsRevoked ==
  \A p \in TXTKeys \ {"key"}, r \in TXTRevokes :
    (done # << >> /\ Last.txts = <<TXT(p, r)>> /\ Last.seen # << >>) =>
      Revoked(Last.seen[1]) /\ Last.seen[1].verdict # "valid"

(***************************************************************************)
(* Specification of the record round trip: a record is parsed, a record is *)
(* built from the parsed field store, and the built record is parsed.      *)
(* dgMem holds the record, dgRec the parsed store, dgOut the store after   *)
(* SealRecord and then the store parsed from its @record.                  *)
(***************************************************************************)
\* attribute values as they are written in a record: plain, and with an
\* escaped quote, backslash and apostrophe
WrittenValues == {Str("plain"), Str("a\\\"b"), Str("a\\\\b"), Str("it\\'s")}

RecordTexts ==
  { Str("<seal seal=1 b=F~S,s~f da=sha256 ka=rsa sf=hex") \o kv \o uid
      \o Str(" info=\"") \o info \o Str("\"") \o comment \o Str(" d=a.b s=\"ab12\"/>") :
      kv \in {<< >>, Str(" kv=2")}, uid \in {<< >>, Str(" uid=u1")},
      info \in WrittenValues, comment \in {<< >>, Str(" comment=\"x y\"")} }

InitRecord ==
  /\ dgMem \in RecordTexts
  /\ dgRec = NULLREC
  /\ dgOut = NULLREC
  /\ MainOff

RecordParse ==
  /\ dgRec = NULLREC
  /\ dgRec' = Call("SealParse", <<Len(dgMem), dgMem, 0, NULLREC>>)
  /\ dgRec' # NULLREC
  /\ UNCHANGED <<dgMem, dgOut>>
  /\ UNCHANGED mainVars

RecordBuild ==
  /\ dgRec # NULLREC
  /\ dgOut = NULLREC
  /\ dgOut' = Call("SealRecord", <<dgRec>>)
  /\ UNCHANGED <<dgMem, dgRec>>
  /\ UNCHANGED mainVars

RecordReparse ==
  /\ dgOut # NULLREC
  /\ SealSearch(dgOut, "@record")
  /\ dgOut' = Call("SealParse", <<Len(dgOut["@record"]), dgOut["@record"], 0, NULLREC>>)
  /\ UNCHANGED <<dgMem, dgRec>>
  /\ UNCHANGED mainVars

NextRecord == RecordParse \/ RecordBuild \/ RecordReparse

SpecRecord == InitRecord /\ [][NextRecord]_vars

(***************************************************************************)
(* Properties of the record round trip                                     *)
(***************************************************************************)
\* the keys of the record grammar
Canonical == {"seal", "ka", "kv", "da", "sf", "uid", "id", "b", "d", "s", "pk", "pka", "pkd",
              "info", "comment", "copyright", "src", "srca", "srcd"}

Reparsed == dgOut # NULLREC /\ ~SealSearch(dgOut, "@record") /\ ~Halted(dgOut)

\* C13: the record built from the parsed field store parses to the same
\* canonical attributes with the same decoded values, d, uid and values with
\* a quote or a backslash included.
C13_RoundTrip ==
  (dgOut # NULLREC /\ ~SealSearch(dgOut, "@record")) =>
    \A f \in Canonical :
      /\ SealSearch(dgRec, f) <=> SealSearch(dgOut, f)
      /\ SealSearch(dgRec, f) => CText(dgOut[f]) = CText(dgRec[f])

(***************************************************************************)
(* Specification of the XML encoding: a text value is encoded by           *)
(* SealXmlEncode and the encoded value is decoded by SealXmlDecode.        *)
(* dgMem holds the text, dgRec the encoded and dgOut the decoded field.    *)
(***************************************************************************)
MaxXml == 4

\* printable characters: letters and punctuation, the five special
\* characters, and a two-byte character
XmlChars == {<<"a">>, <<"t">>, <<"l">>, <<";">>, <<"#">>, <<"&">>, <<"<">>, <<">">>,
             <<"\"">>, <<"'">>, <<"xC3", "xA9">>}

RECURSIVE XmlTexts(_)
XmlTexts(n) ==
  IF n = 0 THEN {<< >>}
  ELSE XmlTexts(n - 1) \cup {t \o c : t \in XmlTexts(n - 1), c \in XmlChars}

InitXml ==
  /\ dgMem \in XmlTexts(MaxXml)
  /\ dgRec = NULLREC
  /\ dgOut = NULLREC
  /\ MainOff

XmlEncode ==
  /\ dgRec = NULLREC
  /\ dgRec' = SealSet(NULLREC, "v", SealXmlEncode(dgMem))
  /\ UNCHANGED <<dgMem, dgOut>>
  /\ UNCHANGED mainVars

XmlDecode ==
  /\ dgRec # NULLREC
  /\ dgOut = NULLREC
  /\ dgOut' = SealSet(NULLREC, "v", SealXmlDecode(dgRec["v"]))
  /\ UNCHANGED <<dgMem, dgRec>>
  /\ UNCHANGED mainVars

NextXml == XmlEncode \/ XmlDecode

SpecXml == InitXml /\ [][NextXml]_vars

(***************************************************************************)
(* Properties of the XML encoding                                          *)
(***************************************************************************)
\* C14: decoding the encoding of a printable UTF-8 text gives the text back,
\* multi-byte characters and the five special characters included.
C14_XmlRoundTrip == dgOut # NULLREC => dgOut["v"] = dgMem

(***************************************************************************)
(* Specification of range evaluation: SealDigest is applied to a b= of one *)
(* or two segments over a file with a signature at @s, with or without the *)
(* source media of a sidecar as preface.                                   *)
(***************************************************************************)
RangeLhs == {Str("F"), Str("s"), Str("s+5-2"), Str("P"), Str("p")}

RangeRhs == {Str("S"), Str("f"), << >>, Str("s")}

RangeSegs == {l \o <<"~">> \o r : l \in RangeLhs, r \in RangeRhs}

RangeExprs == RangeSegs \cup {a \o <<",">> \o b : a \in RangeSegs, b \in RangeSegs}

RangeFile(n) == [i \in 1..n |-> Chr[(i % 250) + 1]]

RangeSizes == {300, 1000}

RangePrev == {<<0, 0, 0>>, <<20, 60, 0>>}

\* the source media a sidecar is signed for
Media == Str("MEDIA")

MmapPre == IF SealSearch(disk, "media") THEN disk["media"] ELSE NoFile

InitRange ==
  /\ \E n \in RangeSizes : dgMem = RangeFile(n)
  /\ \E b \in RangeExprs, p \in RangePrev :
       dgRec = [b |-> b, da |-> <<"s","h","a","2","5","6">>]
               @@ ("@s" :> <<100, 200, 1>>) @@ ("@p" :> p)
  /\ dgOut = NULLREC
  /\ disk \in {NULLREC, [media |-> Media]}
  /\ sigs = << >> /\ pc = "idle" /\ Mode = "v" /\ CleanArgs = NULLREC
  /\ PrivateKey = NoKey /\ batch = << >> /\ ReturnCode = 0 /\ status = NoStatus
  /\ done = << >> /\ made = {} /\ runs = 0
  /\ DNSCache = << >> /\ queries = << >>

RangeEval ==
  /\ dgOut = NULLREC
  /\ \E junk \in StackJunk : dgOut' = Call("SealDigestRun", <<dgRec, dgMem, MmapPre, junk>>)
  /\ UNCHANGED <<dgRec, dgMem>>
  /\ UNCHANGED mainVars

NextRange == RangeEval

SpecRange == InitRange /\ [][NextRange]_vars

(***************************************************************************)
(* Properties of range evaluation                                          *)
(***************************************************************************)
\* the evaluation of b="F~S,s+5-2~f" with S=100, s=200 over 1000 bytes
Example ==
  /\ dgOut # NULLREC
  /\ dgRec["b"] = Str("F~S,s+5-2~f")
  /\ dgRec["@s"][1] = 100 /\ dgRec["@s"][2] = 200
  /\ Len(dgMem) = 1000

RECURSIVE SegTexts(_, _)
SegTexts(b, cur) ==
  IF b = << >> THEN <<cur>>
  ELSE IF Head(b) = "," THEN <<cur>> \o SegTexts(Tail(b), << >>)
  ELSE SegTexts(Tail(b), Append(cur, Head(b)))

\* nothing is written after the '~' of the segment
EmptyRhs(seg) == seg # << >> /\ seg[Len(seg)] = "~"

\* C18: a segment whose rhs is empty is evaluated with rhs equal to the file
\* length, whether a ',' follows it or it ends the expression.
C18_EmptyRhsIsFileLength ==
  dgOut # NULLREC =>
    \A k \in 1..Len(dgOut.segs) :
      EmptyRhs(SegTexts(dgRec["b"], << >>)[k]) => dgOut.segs[k][2] = Len(dgMem)

\* the digest was computed with the source media as preface
Prefaced == dgOut # NULLREC /\ SealSearch(disk, "media") /\ SealSearch(dgOut.Rec, "@digest1")

Mentions(text, cs) == \E i \in 1..Len(text) : text[i] \in cs

\* C20 as stated: when b= mentions F or P the preface enters the hash once,
\* before the first file byte of the segment in which F or P appears.
C20_PrefaceOnce ==
  (Prefaced /\ Mentions(dgRec["b"], {"F", "P"})) =>
    LET texts == SegTexts(dgRec["b"], << >>)
        k     == CHOOSE n \in 1..Len(texts) :
                   /\ Mentions(texts[n], {"F", "P"})
                   /\ \A m \in 1..(n - 1) : ~Mentions(texts[m], {"F", "P"})
    IN dgOut.stream = ConcatSegs(dgMem, SubSeq(dgOut.segs, 1, k - 1), 1)
                      \o disk["media"]
                      \o ConcatSegs(dgMem, dgOut.segs, k)

\* how often a segment's text makes SealDigest hash the preface: at every F,
\* and at every P while the previous signature starts at offset 0
RECURSIVE PrefaceCount(_, _)
PrefaceCount(text, p0) ==
  IF text = << >> THEN 0
  ELSE (IF Head(text) = "F" \/ (Head(text) = "P" /\ p0 = 0) THEN 1 ELSE 0)
       + PrefaceCount(Tail(text), p0)

RECURSIVE Repeat(_, _)
Repeat(t, n) == IF n = 0 THEN << >> ELSE t \o Repeat(t, n - 1)

RECURSIVE PrefacedSegs(_, _, _, _, _, _)
PrefacedSegs(mem, pre, texts, segs, p0, i) ==
  IF i > Len(segs) THEN << >>
  ELSE Repeat(pre, PrefaceCount(texts[i], p0)) \o Bytes(mem, segs[i][1], segs[i][2])
       \o PrefacedSegs(mem, pre, texts, segs, p0, i + 1)

\* C20: with a preface file supplied, the preface file's full content enters
\* the hash at every F of b=, and at every P when @p[0] is 0, each time
\* before the file bytes of the segment in which the anchor appears; a P
\* with @p[0] other than 0 adds nothing.
C20_PrefaceAtAnchors ==
  Prefaced =>
    dgOut.stream = PrefacedSegs(dgMem, disk["media"], SegTexts(dgRec["b"], << >>),
                                dgOut.segs, dgRec["@p"][1], 1)

C20_Witness ==
  /\ Prefaced
  /\ dgRec["b"] = Str("s~,P~S")
  /\ dgRec["@p"][1] = 0
  /\ Len(dgMem) = 300
  /\ dgOut.stream = Bytes(dgMem, 200, 300) \o disk["media"] \o Bytes(dgMem, 0, 100)

(***************************************************************************)
(* Specification of the output writer: SealInsert is applied to a source   *)
(* file, a block and an insert offset.                                     *)
(***************************************************************************)
MaxSrc == 3

SrcBytes == {"a", "b"}

RECURSIVE SrcTexts(_)
SrcTexts(n) ==
  IF n = 0 THEN {<< >>}
  ELSE SrcTexts(n - 1) \cup {Append(t, c) : t \in {u \in SrcTexts(n - 1) : Len(u) = n - 1},
                                             c \in SrcBytes}

Blocks == {Str("[s]"), Str("<seal/>")}

\* @sflags as main() and an earlier record leave it
InsertFlags == {<< >>, Str("F"), Str("Ff")}

InitInsert ==
  /\ dgMem \in SrcTexts(MaxSrc)
  /\ \E block \in Blocks, fl \in InsertFlags :
       dgRec = ("@FilenameOut" :> Str("./out")) @@ ("@BLOCK" :> block)
               @@ ("@s" :> <<1, Len(block) - 1, 0>>)
               @@ (IF fl = << >> THEN NULLREC ELSE ("@sflags" :> fl))
  /\ dgOut = NULLREC
  /\ disk = [in |-> dgMem]
  /\ sigs = << >> /\ pc = "idle" /\ Mode = "s" /\ CleanArgs = NULLREC
  /\ PrivateKey = NoKey /\ batch = << >> /\ ReturnCode = 0 /\ status = NoStatus
  /\ done = << >> /\ made = {} /\ runs = 0
  /\ DNSCache = << >> /\ queries = << >>

\* Insert with the block always written after the last source byte
InsertAtEnd(off) ==
  /\ dgOut = NULLREC
  /\ \E I \in {Call("SealInsert", <<dgRec, dgMem, Len(dgMem), disk>>)} :
       /\ dgOut' = [off |-> off, ok |-> I.ok, Rec |-> I.Rec]
       /\ disk' = I.disk
  /\ UNCHANGED <<dgRec, dgMem>>
  /\ UNCHANGED <<sigs, pc, Mode, CleanArgs, PrivateKey, batch, ReturnCode, status, done, made,
                 runs>>
  /\ UNCHANGED dnsVars

Insert(off) ==
  /\ dgOut = NULLREC
  /\ \E I \in {Call("SealInsert", <<dgRec, dgMem, off, disk>>)} :
       /\ dgOut' = [off |-> off, ok |-> I.ok, Rec |-> I.Rec]
       /\ disk' = I.disk
  /\ UNCHANGED <<dgRec, dgMem>>
  /\ UNCHANGED <<sigs, pc, Mode, CleanArgs, PrivateKey, batch, ReturnCode, status, done, made,
                 runs>>
  /\ UNCHANGED dnsVars

NextInsert == \E off \in 0..(MaxSrc + 1) : Insert(off)

SpecInsert == InitInsert /\ [][NextInsert]_vars

(***************************************************************************)
(* Properties of the output writer                                         *)
(***************************************************************************)
\* SealInsert wrote a file for an offset inside the source
Inserted == dgOut # NULLREC /\ dgOut.ok /\ dgOut.off <= Len(dgMem)

\* C16: for an insert offset 0 <= off <= |src| the file SealInsert writes is
\* src[0..off), then @BLOCK, then src[off..|src|): its length is
\* |src| + |@BLOCK|, every source byte is kept in order, and the source file
\* is as it was.
C16_InsertKeepsSource ==
  Inserted =>
    LET out   == disk["out"]
        block == dgRec["@BLOCK"]
        off   == dgOut.off
    IN /\ Len(out) = Len(dgMem) + Len(block)
       /\ \A k \in 1..off : out[k] = dgMem[k]
       /\ \A k \in 1..Len(block) : out[off + k] = block[k]
       /\ \A k \in (off + 1)..Len(dgMem) : out[Len(block) + k] = dgMem[k]
       /\ disk["in"] = dgMem

C16_Witness ==
  /\ Inserted
  /\ dgOut.off > 0 /\ dgOut.off < Len(dgMem)
  /\ disk["out"] = SubSeq(dgMem, 1, dgOut.off) \o dgRec["@BLOCK"]
                   \o SubSeq(dgMem, dgOut.off + 1, Len(dgMem))

(***************************************************************************)
(* Specification of the double digest: SealDoubleDigest is applied to a    *)
(* record as SealDigest leaves it, with or without a date and an id.       *)
(***************************************************************************)
\* each input is absent (<< >>) or present with a value (<<v>>)
DoubleIds == {<< >>, << << >> >>, <<Str("alice")>>, <<Str("b:c")>>}

DoubleDates == {<< >>, << << >> >>, <<Str("20240101000000")>>, <<Str("20240101000000.123")>>}

DoubleAlgs == {<< >>} \cup {<<a>> : a \in DigestAlgs}

DoubleStreams == {<< >>, << << >> >>, <<Str("abc")>>}

Opt(Field, o) == IF o = << >> THEN NULLREC ELSE (Field :> o[1])

InitDouble ==
  /\ \E id \in DoubleIds, date \in DoubleDates, da \in DoubleAlgs, data \in DoubleStreams :
       dgRec = Opt("id", id) @@ Opt("@sigdate", date) @@ Opt("da", da)
               @@ (IF data = << >> THEN ("@error" :> "Invalid range in b")
                   ELSE ("@digest1" :> EVP_Digest(SealGetMdfFromString(Opt("da", da)), data[1])))
  /\ dgMem = << >>
  /\ dgOut = NULLREC
  /\ MainOff

DoubleDigest ==
  /\ dgOut = NULLREC
  /\ dgOut' = [Rec |-> Call("SealDoubleDigest", <<dgRec>>)]
  /\ UNCHANGED <<dgRec, dgMem>>
  /\ UNCHANGED mainVars

NextDouble == DoubleDigest

SpecDouble == InitDouble /\ [][NextDouble]_vars

(***************************************************************************)
(* Properties of the double digest                                         *)
(***************************************************************************)
\* the text of a field, empty when the field is absent
Part(Rec, Field) == IF SealSearch(Rec, Field) THEN Rec[Field] ELSE << >>

\* a part with its colon, nothing when the part is absent
WithColon(v) == IF v = << >> THEN << >> ELSE v \o <<":">>

\* C17: on a record with @digest1, @digest2 is produced exactly when
\* @sigdate or id is non-empty; it is then the hash, under the record's
\* digest algorithm, of sigdate ':' id ':' digest1 with each absent part
\* left out together with its colon; @digest1 stays as it was.
C17_DoubleDigest ==
  (dgOut # NULLREC /\ SealSearch(dgRec, "@digest1")) =>
    LET date == Part(dgRec, "@sigdate")
        id   == Part(dgRec, "id")
    IN /\ SealSearch(dgOut.Rec, "@digest2") <=> (date # << >> \/ id # << >>)
       /\ SealSearch(dgOut.Rec, "@digest2") =>
            dgOut.Rec["@digest2"] =
              EVP_Digest(SealGetMdfFromString(dgRec),
                         WithColon(date) \o WithColon(id) \o DigestBytes(dgRec["@digest1"]))
       /\ SealSearch(dgOut.Rec, "@digest1") /\ dgOut.Rec["@digest1"] = dgRec["@digest1"]

C17_Witness ==
  /\ dgOut # NULLREC
  /\ Part(dgRec, "@sigdate") = Str("20240101000000")
  /\ Part(dgRec, "id") = Str("alice")
  /\ SealSearch(dgOut.Rec, "@digest2")
  /\ dgOut.Rec["@digest2"].data =
       Str("20240101000000:alice:") \o DigestBytes(dgRec["@digest1"])

(***************************************************************************)
(* Specification of the record scan: SealParse is applied to a text that   *)
(* holds a record between other bytes.  dgMem is the text, dgOut what      *)
(* SealParse returns.                                                      *)
(***************************************************************************)
ParseLeads == {<< >>, Str("ab "), Str("<p>")}

\* what stands between the last attribute and the end token
ParseGaps == {<< >>, Str(" "), Str("  "), Str("\n")}

\* the opening of a record with the end token that closes it
ParseForms == {<<Str("<seal "), Str("/>")>>, <<Str("<seal "), Str(">")>>,
               <<Str("<?seal "), Str("?>")>>}

ParseLast == {Str("s=\"ab12\""), Str("s='ab12'")}

ParseTrails == {<< >>, Str("xyz"), Str("<seal seal=1 s=\"cd\"/>")}

ParseTexts ==
  { lead \o form[1] \o Str("seal=1 b=\"F~S,s~f\" ") \o last \o gap \o form[2] \o trail :
      lead \in ParseLeads, form \in ParseForms, last \in ParseLast, gap \in ParseGaps,
      trail \in ParseTrails }

InitParse ==
  /\ dgMem \in ParseTexts
  /\ dgRec = NULLREC
  /\ dgOut = NULLREC
  /\ MainOff

Parse ==
  /\ dgOut = NULLREC
  /\ dgOut' = [Rec |-> Call("SealParse", <<Len(dgMem), dgMem, 0, NULLREC>>)]
  /\ UNCHANGED <<dgRec, dgMem>>
  /\ UNCHANGED mainVars

NextParse == Parse

SpecParse == InitParse /\ [][NextParse]_vars

(***************************************************************************)
(* Properties of the record scan                                           *)
(***************************************************************************)
\* the offset at which the first record of a text opens
RecordStart(text) ==
  CHOOSE i \in 0..Len(text) :
    /\ Match(text, i, Str("<seal ")) \/ Match(text, i, Str("<?seal "))
    /\ \A j \in 0..(i - 1) : ~(Match(text, j, Str("<seal ")) \/ Match(text, j, Str("<?seal ")))

\* the offset one past the first '>' after the opening of the first record
RecordEnd(text) ==
  1 + (CHOOSE i \in RecordStart(text)..(Len(text) - 1) :
         /\ At(text, i) = ">"
         /\ \A j \in RecordStart(text)..(i - 1) : At(text, j) # ">")

\* C21: for every record SealParse returns, @RecEnd is the offset one past
\* the record's final '>', whatever whitespace stands before the end token.
C21_RecEndPastRecord ==
  (dgOut # NULLREC /\ dgOut.Rec # NULLREC) =>
    SealGetIindex(dgOut.Rec, "@RecEnd", 0) = RecordEnd(dgMem)

(***************************************************************************)
(* Specification of the resolver: keys are looked up and counted for the   *)
(* domains of a small zone table, and a key file may be loaded as default. *)
(* dgOut holds the last call and its result.                               *)
(***************************************************************************)
MaxQueries == 2

MaxMatch == 1

\* what res_nquery answers for a name
res_nquery(dname) ==
  CASE Lower(dname) = Str("a.b") ->
         [MsgMax |-> "ok",
          txts |-> <<Str("seal=1 ka=rsa p=QUJD"), Str("v=spf1 -all"),
                     Str("seal=1 ka=ec kv=2 uid=u p=REVG")>>]
    [] Lower(dname) = Str("x.y") -> [MsgMax |-> "ok", txts |-> <<Str("v=spf1 -all")>>]
    [] Lower(dname) = Str("k.a") -> [MsgMax |-> "ok", txts |-> <<Str("seal=1 ka=dsa p=QUJD")>>]
    [] Lower(dname) = Str("g.h") -> [MsgMax |-> "bad", txts |-> << >>]
    [] OTHER -> [MsgMax |-> "none", txts |-> << >>]

LookupNames == {Str("a.b"), Str("A.B"), Str("x.y"), Str("k.a"), Str("g.h"), Str("n.o")}

\* the attributes of the record a key is looked up for
LookupKeys == {[seal |-> <<"1">>, ka |-> Str("rsa")],
               [seal |-> <<"1">>, ka |-> Str("ec"), kv |-> <<"2">>, uid |-> <<"u">>]}

Requests ==
  {key @@ [d |-> d] @@ nonet : key \in LookupKeys, d \in LookupNames,
                               nonet \in {NULLREC, ("no-net" :> <<"1">>)}}

DefaultFile == Str("ka=rsa seal=1 p=R0hJ")

InitDNS ==
  /\ dgRec = NULLREC /\ dgMem = << >> /\ dgOut = NULLREC
  /\ MainOff

Asked(G, Args) == IF G.asked THEN Append(queries, CText(Args["d"])) ELSE queries

DNSGet(Args, n) ==
  /\ Len(queries) < MaxQueries
  /\ \E G \in {Call("SealDNSGet", <<Args, n, DNSCache, res_nquery(CText(Args["d"]))>>)} :
       /\ dgOut' = [call |-> "get", Args |-> Args, n |-> n, Rec |-> G.Rec, count |-> 0,
                    asked |-> G.asked]
       /\ DNSCache' = G.cache
       /\ queries' = Asked(G, Args)
  /\ UNCHANGED <<dgRec, dgMem>>
  /\ UNCHANGED <<disk, sigs, pc, Mode, CleanArgs, PrivateKey, batch, ReturnCode, status, done,
                 made, runs>>

DNSCount(Args) ==
  /\ Len(queries) < MaxQueries
  /\ \E G \in {Call("SealDNSCount", <<Args, DNSCache, res_nquery(CText(Args["d"]))>>)} :
       /\ dgOut' = [call |-> "count", Args |-> Args, n |-> 0, Rec |-> NULLREC,
                    count |-> G.count, asked |-> G.asked]
       /\ DNSCache' = G.cache
       /\ queries' = Asked(G, Args)
  /\ UNCHANGED <<dgRec, dgMem>>
  /\ UNCHANGED <<disk, sigs, pc, Mode, CleanArgs, PrivateKey, batch, ReturnCode, status, done,
                 made, runs>>

DNSLoad ==
  /\ \A k \in 1..Len(DNSCache) : DNSCache[k].Domain # DefaultName
  /\ DNSCache' = Call("SealDNSLoadFile", <<DefaultFile, DNSCache>>)
  /\ dgOut' = NULLREC
  /\ UNCHANGED <<dgRec, dgMem, queries>>
  /\ UNCHANGED <<disk, sigs, pc, Mode, CleanArgs, PrivateKey, batch, ReturnCode, status, done,
                 made, runs>>

NextDNS ==
  \/ \E Args \in Requests, n \in 0..MaxMatch : DNSGet(Args, n)
  \/ \E Args \in Requests : DNSCount(Args)
  \/ DNSLoad

SpecDNS == InitDNS /\ [][NextDNS]_vars

(***************************************************************************)
(* Properties of the resolver                                              *)
(***************************************************************************)
\* the cached TXT records of a name, in the order of the cache
CachedFor(cache, dname) ==
  SelectSeq(cache, LAMBDA e : e.TXT # NoTXT /\ SameName(e.Domain, dname))

Got == dgOut # NULLREC /\ dgOut.call = "get"

\* C22: with no-net set a lookup issues no network query; it returns
\* absent when nothing is cached for the domain and otherwise answers from
\* the cache.
C22_NoNetAnswersFromCache ==
  (Got /\ SealSearch(dgOut.Args, "no-net")) =>
    LET mine == CachedFor(DNSCache, dgOut.Args["d"])
    IN /\ ~dgOut.asked
       /\ dgOut.Rec = IF dgOut.n < Len(mine) THEN mine[dgOut.n + 1].Rec ELSE NULLREC

\* C23: no domain is asked of the network more than once in a process.
C23_OneQueryPerDomain ==
  \A i \in 1..Len(queries) : \A j \in 1..Len(queries) :
    i # j => ~SameName(queries[i], queries[j])

\* a field of a store with a default for when it is absent
Default(Rec, Field, v) == IF SealSearch(Rec, Field) THEN CText(Rec[Field]) ELSE v

\* the filters of the n-th-match lookup
Passes(Rec, Args) ==
  /\ SealCmp2(Rec, "seal", Args, "seal") = 0
  /\ SealSearch(Rec, "uid") => Default(Args, "uid", << >>) = CText(Rec["uid"])
  /\ SealCmp2(Rec, "ka", Args, "ka") = 0
  /\ Default(Rec, "kv", <<"1">>) = Default(Args, "kv", <<"1">>)

\* C24: without no-net, a lookup returns the n-th cached TXT record of the
\* domain among those that pass the filters on seal, uid, ka and kv, and
\* never a record that fails one of them.
C24_NthMatchIsFiltered ==
  (Got /\ ~SealSearch(dgOut.Args, "no-net")) =>
    LET mine  == CachedFor(DNSCache, dgOut.Args["d"])
        match == SelectSeq(mine, LAMBDA e : Passes(e.Rec, dgOut.Args))
    IN /\ dgOut.Rec # NULLREC => Passes(dgOut.Rec, dgOut.Args)
       /\ mine # << >> =>
            dgOut.Rec = IF dgOut.n < Len(match) THEN match[dgOut.n + 1].Rec ELSE NULLREC

(***************************************************************************)
(* Specification of the rename: SealMove is applied to a store of up to    *)
(* three fields, for every pair of field names.                            *)
(***************************************************************************)
MoveFields == {"@enc", "@signatureenc", "@sigbin"}

MoveValues == {Str("ab"), Str("c")}

\* the stores: each field is absent (<< >>) or present with a value (<<v>>)
MoveStores ==
  {Opt("@enc", a) @@ Opt("@signatureenc", b) @@ Opt("@sigbin", c) :
     a \in {<< >>} \cup {<<v>> : v \in MoveValues},
     b \in {<< >>} \cup {<<v>> : v \in MoveValues},
     c \in {<< >>} \cup {<<v>> : v \in MoveValues}}

InitMove ==
  /\ dgRec \in MoveStores
  /\ dgMem = << >>
  /\ \E NewField \in MoveFields, OldField \in MoveFields :
       dgOut = [NewField |-> NewField, OldField |-> OldField]
  /\ MainOff

Move ==
  /\ "Rec" \notin DOMAIN dgOut
  /\ dgOut' = dgOut @@ [Rec |-> SealMove(dgRec, dgOut.NewField, dgOut.OldField)]
  /\ UNCHANGED <<dgRec, dgMem>>
  /\ UNCHANGED mainVars

NextMove == Move

SpecMove == InitMove /\ [][NextMove]_vars

(***************************************************************************)
(* Properties of the rename                                                *)
(***************************************************************************)
\* C27: after SealMove(store, dst, src) with src present and dst another
\* name, dst holds what src held, src is absent, and every other field is as
\* it was, whether or not dst was present before.
C27_MoveRenames ==
  ("Rec" \in DOMAIN dgOut /\ dgOut.NewField # dgOut.OldField
     /\ SealSearch(dgRec, dgOut.OldField)) =>
    /\ SealSearch(dgOut.Rec, dgOut.NewField)
    /\ dgOut.Rec[dgOut.NewField] = dgRec[dgOut.OldField]
    /\ ~SealSearch(dgOut.Rec, dgOut.OldField)
    /\ \A f \in MoveFields \ {dgOut.NewField, dgOut.OldField} :
         /\ SealSearch(dgOut.Rec, f) <=> SealSearch(dgRec, f)
         /\ SealSearch(dgRec, f) => dgOut.Rec[f] = dgRec[f]

(***************************************************************************)
(* Specification of the window scan: the loop of SealVerifyBlock runs over *)
(* a window built from whole, malformed and truncated records.  dgMem is   *)
(* the window; dgOut holds BlockStart, the running state and whether the   *)
(* loop has ended.                                                         *)
(***************************************************************************)
\* whole records, records cut off inside a value, inside a name and before
\* any attribute, and bytes that belong to no record
ScanPieces ==
  { << >>,
    Str("<seal seal=1 b=F~S,s~f d=a.b s=ab/>"),
    Str("<seal seal=1 b=\"F~S\" d=a.b/>"),
    Str("<seal seal=1 b=\"F~S"),
    Str("<seal seal=1 s=\"ab"),
    Str("<seal seal=1 d"),
    Str("<seal >"),
    Str("<seal <"),
    Str("<seal"),
    Str("<?seal seal=1 d=a.b ?>"),
    Str("xyz\n") }

ScanWindows == {a \o b : a \in ScanPieces, b \in ScanPieces}

InitScan ==
  /\ dgMem \in ScanWindows
  /\ dgRec = NULLREC
  /\ dgOut = [BlockStart |-> 0, ended |-> FALSE, found |-> 0,
              Args |-> Call("MainStart", <<"v", NULLREC, NoKey, 1, Now, "ok">>)]
  /\ MainOff

\* the loop test and one pass through the body, without advancing
ScanStay ==
  /\ ~dgOut.ended
  /\ \E V \in {Call("VerifyBlockStep", <<dgOut.Args, dgOut.BlockStart, Len(dgMem), dgMem,
                       Zone, NULLREC, << >>>>)} :
       dgOut' = IF dgOut.BlockStart >= Len(dgMem) \/ V.Rec = NULLREC \/ Halted(V.Args)
                  THEN [dgOut EXCEPT !.ended = TRUE]
                ELSE [dgOut EXCEPT !.Args = V.Args, !.found = @ + 1]
  /\ UNCHANGED <<dgRec, dgMem>>
  /\ UNCHANGED mainVars

\* the loop test and one pass through the body of the while-loop
Scan ==
  /\ ~dgOut.ended
  /\ \E V \in {Call("VerifyBlockStep", <<dgOut.Args, dgOut.BlockStart, Len(dgMem), dgMem,
                       Zone, NULLREC, << >>>>)} :
       dgOut' = IF dgOut.BlockStart >= Len(dgMem) \/ V.Rec = NULLREC \/ Halted(V.Args)
                  THEN [dgOut EXCEPT !.ended = TRUE]
                ELSE [dgOut EXCEPT !.BlockStart = V.BlockStart, !.Args = V.Args,
                                   !.found = @ + 1]
  /\ UNCHANGED <<dgRec, dgMem>>
  /\ UNCHANGED mainVars

NextScan == Scan

SpecScan == InitScan /\ [][NextScan]_vars

(***************************************************************************)
(* Properties of the window scan                                           *)
(***************************************************************************)
\* C29: every pass of the loop that does not end it moves BlockStart forward
\* by at least one byte and not past the end of the window, and a pass that
\* starts with BlockStart at the end of the window ends the loop; so the
\* loop makes no more passes than the window has bytes, whatever it holds.
C29_ScanAdvances ==
  [][/\ ~dgOut'.ended => /\ dgOut'.BlockStart >= dgOut.BlockStart + 1
                          /\ dgOut'.BlockStart <= Len(dgMem)
     /\ dgOut.BlockStart >= Len(dgMem) => dgOut'.ended]_vars

\* the loop ended after it had found two records in the window
C29_Witness ==
  /\ "ended" \in DOMAIN dgOut /\ dgOut.ended
  /\ dgOut.found = 2
  /\ dgOut.BlockStart > 0

(***************************************************************************)
(* Specification of JPEG signing: the tool signs one JPEG built from a     *)
(* header and up to two blocks, with or without a start of stream.  dgMem  *)
(* is the file, dgRec the state Seal_JPEG is entered with, dgOut what it   *)
(* returns.                                                                *)
(***************************************************************************)
JpegHead == <<"xFF", "xD8", "xFF", "xE0", NUL, "x07">> \o Str("JFIF") \o <<NUL>>

\* a record an earlier signing left in an APP8 block
JpegRecord == Str("<seal seal=1 b=F~S,s~s+3 d=a.b s=ab/>")

JpegBlocks ==
  { << >>,
    <<"xFF", "xDB", NUL, "x04", "x01", "x02">>,
    <<"xFF", "xFE", NUL, "x05">> \o Str("abc"),
    <<"xFF", "xFE", NUL, "x04", "xFF", "xDA">>,
    <<"xFF", "xE2", NUL, "\n">> \o <<"M", "P", "F", NUL, NUL, NUL, NUL, NUL>>,
    <<"xFF", "xE8", NUL, Chr[Len(JpegRecord) + 8]>> \o Str("SEAL") \o <<NUL>> \o JpegRecord,
    Str("ab"),
    <<"xFF", "xDB", NUL, "x01", NUL, NUL>>,
    <<"xFF", "xDB", "x7F", "xFF", NUL, NUL>>,
    <<"xFF", "xD9", NUL, "x02">> }

JpegTails ==
  { << >>,
    <<NUL, NUL, NUL, NUL, NUL, NUL, NUL, NUL>>,
    <<"xFF", "xDA", NUL, "x02">> \o Str("ab") \o <<"xFF", "xD9">> }

JpegFiles ==
  { f \in { JpegHead \o m1 \o m2 \o t : m1 \in JpegBlocks, m2 \in JpegBlocks, t \in JpegTails } :
      Seal_isJPEG(f) }

JpegOut == Str("out.jpg")

InitJpeg ==
  /\ dgMem \in JpegFiles
  /\ \E opts \in {[domain |-> Domain], [domain |-> Domain, options |-> Str("append")]} :
       dgRec = SealSet(Call("MainStart", <<"s", opts, RSAKey, 1, Now, "ok">>),
                       "@FilenameOut", JpegOut)
  /\ dgOut = NULLREC
  /\ MainOff

Jpeg ==
  /\ dgOut = NULLREC
  /\ dgOut' = [R |-> Call("Seal_JPEG", <<dgRec, dgMem, NULLREC, << >>, Zone,
                      [key |-> RSAKey, now |-> Now, slack |-> 0, kind |-> "ok",
                       stale |-> FALSE]>>)]
  /\ UNCHANGED <<dgRec, dgMem>>
  /\ UNCHANGED mainVars

NextJpeg == Jpeg

SpecJpeg == InitJpeg /\ [][NextJpeg]_vars

(***************************************************************************)
(* Properties of JPEG signing                                              *)
(***************************************************************************)
\* the output file was created
JpegWritten == dgOut # NULLREC /\ FileKey(JpegOut) \in DOMAIN dgOut.R.disk

\* C30: when the walk finds no 0xFFDA no output file is written; when one
\* is written, the new block stands immediately before the 0xFFDA the walk
\* found, between the unchanged bytes before it and the unchanged bytes
\* from it on.
C30_InsertedBeforeFFDA ==
  dgOut # NULLREC =>
    LET F   == dgOut.R.FFDAoffset
        out == dgOut.R.disk[FileKey(JpegOut)]
    IN /\ F = 0 => ~JpegWritten
       /\ (JpegWritten /\ dgOut.R.placed # << >>) =>
            /\ readbe16(dgMem, F) = 65498
            /\ Len(out) > Len(dgMem)
            /\ Bytes(out, 0, F) = Bytes(dgMem, 0, F)
            /\ Bytes(out, Len(out) - (Len(dgMem) - F), Len(out)) = Bytes(dgMem, F, Len(dgMem))

====
